---- MODULE Spec2Model ----
(***************************************************************************)
(* A model of the geche cache library: the TTL engine (map_ttl.go), the    *)
(* single-flight updater (updater.go), the ring engine (ring.go) and the   *)
(* trie-backed KVCache (kv_cache.go).  Every component has its own         *)
(* specification over the shared variables; a component's specification    *)
(* leaves the other components' variables untouched.                       *)
(***************************************************************************)
EXTENDS Integers, Sequences, FiniteSets, Bags, TLC

(***************************************************************************)
(* Bounds of the model.                                                    *)
(***************************************************************************)
\* MapTTLCache: keys are 1..MaxKey (0 is the zero value of K), values 1..MaxVal.
MaxKey == 3
MaxVal == 2
\* The keys the clients of a cache with an eviction callback use.
MaxEvictKey == 2
\* The clock runs from StartTime to StartTime + MaxTicks.
MaxTicks == 2
\* Where the zero value of K is used as a key, the keys are 0..MaxZeroKey.
MaxZeroKey == 1
\* Updater: goroutines calling Get, the keys they ask for, the largest poolSize
\* an Updater is made with, the values updateFn returns, and the count of
\* updateFn invocations per key the history keeps (MaxCalls stands for
\* "MaxCalls or more").
NumCallers == 3
MaxUpdKey == 2
MaxPoolSize == 2
MaxUpdVal == 1
MaxCalls == 2
\* The keys the goroutines ask for where the liveness of Get is checked.
MaxFairKey == 1
\* RingBuffer: keys are 1..MaxRingKey, the capacity is 1..MaxRingSize.
MaxRingKey == 3
MaxRingSize == 2
\* KVCache: key bytes are 1..MaxByte, keys have up to MaxKeyLen bytes, and the
\* clients keep at most MaxKVLen keys in the cache.
MaxByte == 2
MaxKeyLen == 2
MaxKVLen == 3
\* The RingBuffer under the KV wrapper has KVRingSize slots.
KVRingSize == 2
\* The behaviour all caches share: keys are 1..MaxBasicKey, and the ring has
\* room for MaxBasicWrites writes and one more slot.
MaxBasicKey == 3
MaxBasicWrites == 4
\* Locker: the goroutines that take transactions, the accounts, and the balance
\* every account starts with.
NumLockProcs == 2
NumAccounts == 2
InitialBalance == 2
\* The goroutines that call Unlock on one Tx they share.
NumUnlockers == 2
\* KVCache under concurrent calls: the goroutines that call Snapshot, the
\* goroutines that call Set and Del, and the first bytes of the keys they write.
NumSnapshotters == 2
NumKVWriters == 2
MaxSnapByte == 2
\* The Sharded wrapper: numShards is 0..MaxShards, the machine has 1..MaxCPU
\* cores, and the keys are -1..MaxShardKey.
MaxShards == 3
MaxCPU == 3
MaxShardKey == 2

VARIABLES
    \* ---- MapTTLCache ----
    ttlc,       \* the cache object: data, head, tail, onEvict, mux
    now,        \* the clock c.now() reads
    pc,         \* position of the sweeper goroutine inside cleanup()
    evicted,    \* cleanup's local map of evicted entries awaiting their callback
    cbFn,       \* cleanup's local onEvict: the callback the running pass invokes
    owed,       \* history: the (key, value) pairs the running pass deleted from c.data and
                \* has not passed to the callback yet, in the order of their deletion
    cbStray,    \* history: a callback was invoked with a pair that was not owed
    ttlRet,     \* the last operation on the cache and what it returned
    \* ---- Updater ----
    updater,    \* the Updater object: cache (a MapCache), pool, inFlight
    callers,    \* per goroutine: its position inside Updater.Get and its locals
    calls,      \* history: per key, how many times updateFn was invoked
    tainted,    \* history: per key, an updateFn failed or the key was deleted
    signal,     \* history: per goroutine inside Get, how the load it ran or waited for ended
    updRet,     \* the Get that returned last and what it returned
    \* ---- RingBuffer ----
    ring,       \* the RingBuffer object: data, index, head
    ringOrder,  \* history: the keys written and not deleted since, by their latest
                \* slot-consuming write (Set, or SetIfAbsent that inserted), oldest first
    ringLast,   \* history: per such key, the value of its latest write
    ringPristine, \* history: so far the buffer only saw Set, each of a new key
    ringAge,    \* history: per key of ringOrder, how many slot-consuming writes followed
                \* its latest one (the capacity stands for "the capacity or more")
    ringRet,    \* the last operation on the buffer and what it returned
    \* ---- KVCache ----
    kvc,        \* the KVCache object: values, freelist, trie
    kvRef,      \* history: per key, the value the clients' writes left under it
    kvRet,      \* the listing a ListByPrefix has just returned
    \* ---- KV over a MapCache ----
    kvw,        \* the KV object: data (the MapCache), trie
    kvwRef,     \* history: per key, the value the clients' writes left under it
    kvwRet,     \* the listing a ListByPrefix has just returned, and its error
    kvwOp,      \* the Set or Del that holds kv.mux, between its two writes; once it has
                \* finished, history: the latest such call
    \* ---- Locker ----
    locker,     \* the Locker object: cache (a MapCache of balances), mux
    lockProcs,  \* per goroutine: its position in the test's code, its Tx, its locals
    lockRet,    \* the call a Tx did not allow that returned last
    \* ---- a Tx shared by several goroutines ----
    stx,        \* the shared Tx object; history: how many times the Locker's lock was
                \* released through it
    unlockers,  \* per goroutine calling Unlock on the shared Tx: its position inside Unlock
    \* ---- KVCache under concurrent calls ----
    kvmux,      \* kv.mux of the KVCache: the readers holding it, the writer holding it,
                \* the writer that has called Lock and waits for the readers to leave
    snapshotters, \* per goroutine calling Snapshot: its position and the map it returned last
    kvWriters,  \* per goroutine calling Set or Del: its position and its call
    \* ---- Sharded ----
    sharded,    \* the Sharded object: N, shards, mapper
    shardRef,   \* one MapCache given the same calls
    shardRet    \* the call that returned last: what Sharded and the one MapCache returned

ttlVars == <<ttlc, now, pc, evicted, cbFn, owed, cbStray, ttlRet>>
updVars == <<updater, callers, calls, tainted, signal, updRet>>
ringVars == <<ring, ringOrder, ringLast, ringPristine, ringAge, ringRet>>
kvVars == <<kvc, kvRef, kvRet>>
kvwVars == <<kvw, kvwRef, kvwRet, kvwOp>>
lockVars == <<locker, lockProcs, lockRet>>
stxVars == <<stx, unlockers>>
snapVars == <<kvmux, snapshotters, kvWriters>>
shardVars == <<sharded, shardRef, shardRet>>
moreVars == <<stxVars, snapVars, shardVars>>
vars == <<ttlVars, updVars, ringVars, kvVars, kvwVars, lockVars, moreVars>>

\* A step of one component leaves the other components' variables alone.
TTLOnly == UNCHANGED <<updVars, ringVars, kvVars, kvwVars, lockVars, moreVars>>
UpdOnly == UNCHANGED <<ttlVars, ringVars, kvVars, kvwVars, lockVars, moreVars>>
RingOnly == UNCHANGED <<ttlVars, updVars, kvVars, kvwVars, lockVars, moreVars>>
KVOnly == UNCHANGED <<ttlVars, updVars, ringVars, kvwVars, lockVars, moreVars>>
KVWOnly == UNCHANGED <<ttlVars, updVars, ringVars, kvVars, lockVars, moreVars>>
LockOnly == UNCHANGED <<ttlVars, updVars, ringVars, kvVars, kvwVars, moreVars>>

(***************************************************************************)
(* Go maps: a read of a missing key yields the zero value, a write creates *)
(* the key.                                                                *)
(***************************************************************************)
EmptyMap == << >>

MapPut(m, k, v) == [x \in (DOMAIN m) \cup {k} |-> IF x = k THEN v ELSE m[x]]

MapDel(m, k) == [x \in (DOMAIN m) \ {k} |-> m[x]]

(***************************************************************************)
(* MapTTLCache                                                             *)
(***************************************************************************)
\* zero[K]() and zero[V](): the zero values of the key and value types.
ZeroK == 0
ZeroV == 0
\* The zero time.Time: further in the past than any ttl.
ZeroTime == 0
\* The ttl NewMapTTLCache is called with, in ticks of the clock.
TTL == 2
StartTime == TTL + 1
ErrNotFound == "ErrNotFound"
Nil == "nil"

TTLKeys == 1..MaxKey
EvictKeys == 1..MaxEvictKey
Vals == 1..MaxVal

ttlRec(prev, next, value, timestamp) ==
    [prev |-> prev, next |-> next, value |-> value, timestamp |-> timestamp]

ZeroRec == ttlRec(ZeroK, ZeroK, ZeroV, ZeroTime)

\* c.data[k] as Go evaluates it.
Rec(d, k) == IF k \in DOMAIN d THEN d[k] ELSE ZeroRec

\* NewMapTTLCache
NewMapTTLCache ==
    [data |-> EmptyMap, head |-> ZeroK, tail |-> ZeroK, onEvict |-> Nil, mux |-> "free"]

\* c.get with the age compared by > instead of >=.
MapTTLCache_get_strict(c, key, t) ==
    IF key \notin DOMAIN c.data THEN <<ZeroV, ErrNotFound>>
    ELSE IF t - c.data[key].timestamp > TTL THEN <<c.data[key].value, ErrNotFound>>
    ELSE <<c.data[key].value, Nil>>

\* c.get(key): <<value, err>>
MapTTLCache_get(c, key, t) ==
    IF key \notin DOMAIN c.data THEN <<ZeroV, ErrNotFound>>
    ELSE IF t - c.data[key].timestamp >= TTL THEN <<c.data[key].value, ErrNotFound>>
    ELSE <<c.data[key].value, Nil>>

\* The unlink without the case of the head (a head is unlinked like a middle record).
MapTTLCache_set_unlink_nohead(c, key) ==
    LET rec == c.data[key]
        next == Rec(c.data, rec.next)
        prev == Rec(c.data, rec.prev)
        d1 == MapPut(c.data, rec.prev, [prev EXCEPT !.next = rec.next])
    IN  [c EXCEPT !.data = MapPut(d1, rec.next, [next EXCEPT !.prev = rec.prev])]

\* The unlink of an existing, non-tail record in c.set.
MapTTLCache_set_unlink(c, key) ==
    LET rec == c.data[key]
        next == Rec(c.data, rec.next)
    IN  IF key = c.head
        THEN [c EXCEPT !.head = rec.next,
                       !.data = MapPut(c.data, rec.next, [next EXCEPT !.prev = ZeroK])]
        ELSE LET prev == Rec(c.data, rec.prev)
                 d1 == MapPut(c.data, rec.prev, [prev EXCEPT !.next = rec.next])
             IN  [c EXCEPT !.data = MapPut(d1, rec.next, [next EXCEPT !.prev = rec.prev])]

\* c.set writing a record that exists where it stands in the list.
MapTTLCache_set_stay(c, key, value, ts) ==
    LET val == ttlRec(c.tail, ZeroK, value, ts)
    IN  IF c.head = ZeroK
        THEN [c EXCEPT !.head = key, !.tail = key, !.data = MapPut(c.data, key, val)]
        ELSE IF key \in DOMAIN c.data
        THEN [c EXCEPT !.data[key].timestamp = ts, !.data[key].value = value]
        ELSE LET tailval == Rec(c.data, c.tail)
                 d2 == MapPut(c.data, c.tail, [tailval EXCEPT !.next = key])
             IN  [c EXCEPT !.tail = key, !.data = MapPut(d2, key, val)]

\* c.set(key, value) at time ts: the cache after it.
MapTTLCache_set(c, key, value, ts) ==
    LET val == ttlRec(c.tail, ZeroK, value, ts)
    IN  IF c.head = ZeroK
        THEN [c EXCEPT !.head = key, !.tail = key, !.data = MapPut(c.data, key, val)]
        ELSE IF c.tail = key
        THEN LET rec == Rec(c.data, c.tail)
             IN  [c EXCEPT !.data = MapPut(c.data, c.tail,
                                           [rec EXCEPT !.timestamp = ts, !.value = value])]
        ELSE LET c1 == IF key \in DOMAIN c.data THEN MapTTLCache_set_unlink(c, key) ELSE c
                 tailval == Rec(c1.data, c1.tail)
                 d2 == MapPut(c1.data, c1.tail, [tailval EXCEPT !.next = key])
             IN  [c1 EXCEPT !.tail = key, !.data = MapPut(d2, key, val)]

\* The body of Del once the record was found.
MapTTLCache_del(c, key) ==
    IF key \notin DOMAIN c.data THEN c
    ELSE LET rec == c.data[key]
             d0 == MapDel(c.data, key)
             h1 == IF key = c.head THEN rec.next ELSE c.head
             t1 == IF key = c.tail THEN rec.prev ELSE c.tail
             d1 == IF rec.prev # ZeroK
                   THEN MapPut(d0, rec.prev, [Rec(d0, rec.prev) EXCEPT !.next = rec.next])
                   ELSE d0
             d2 == IF rec.next # ZeroK
                   THEN MapPut(d1, rec.next, [Rec(d1, rec.next) EXCEPT !.prev = rec.prev])
                   ELSE d1
         IN  [c EXCEPT !.data = d2, !.head = h1, !.tail = t1]

\* The loop of cleanup recording an eviction only after the test for the tail.
RECURSIVE MapTTLCache_cleanup_loop_late(_, _, _, _, _, _)
MapTTLCache_cleanup_loop_late(c, key, onEv, ev, rm, t) ==
    IF key \notin DOMAIN c.data THEN [c |-> c, evicted |-> ev, removed |-> rm]
    ELSE LET rec == c.data[key] IN
         IF t - rec.timestamp < TTL THEN [c |-> c, evicted |-> ev, removed |-> rm]
         ELSE LET c1 == [c EXCEPT !.head = rec.next, !.data = MapDel(c.data, key)]
                  ev1 == IF onEv # Nil THEN MapPut(ev, key, rec.value) ELSE ev
                  rm1 == Append(rm, <<key, rec.value>>)
              IN  IF key = c1.tail
                  THEN [c |-> [c1 EXCEPT !.tail = ZeroK], evicted |-> ev, removed |-> rm1]
                  ELSE LET c2 == IF rec.next \in DOMAIN c1.data
                                 THEN [c1 EXCEPT !.data[rec.next].prev = ZeroK]
                                 ELSE c1
                       IN  MapTTLCache_cleanup_loop_late(c2, rec.next, onEv, ev1, rm1, t)

\* The loop of cleanup keeping one evicted entry only, the latest.
RECURSIVE MapTTLCache_cleanup_loop_single(_, _, _, _, _, _)
MapTTLCache_cleanup_loop_single(c, key, onEv, ev, rm, t) ==
    IF key \notin DOMAIN c.data THEN [c |-> c, evicted |-> ev, removed |-> rm]
    ELSE LET rec == c.data[key] IN
         IF t - rec.timestamp < TTL THEN [c |-> c, evicted |-> ev, removed |-> rm]
         ELSE LET c1 == [c EXCEPT !.head = rec.next, !.data = MapDel(c.data, key)]
                  ev1 == IF onEv # Nil THEN MapPut(EmptyMap, key, rec.value) ELSE ev
                  rm1 == Append(rm, <<key, rec.value>>)
              IN  IF key = c1.tail
                  THEN [c |-> [c1 EXCEPT !.tail = ZeroK], evicted |-> ev1, removed |-> rm1]
                  ELSE LET c2 == IF rec.next \in DOMAIN c1.data
                                 THEN [c1 EXCEPT !.data[rec.next].prev = ZeroK]
                                 ELSE c1
                       IN  MapTTLCache_cleanup_loop_single(c2, rec.next, onEv, ev1, rm1, t)

\* The loop of cleanup keeping a record whose age is exactly the ttl.
RECURSIVE MapTTLCache_cleanup_loop_strict(_, _, _, _, _, _)
MapTTLCache_cleanup_loop_strict(c, key, onEv, ev, rm, t) ==
    IF key \notin DOMAIN c.data THEN [c |-> c, evicted |-> ev, removed |-> rm]
    ELSE LET rec == c.data[key] IN
         IF t - rec.timestamp <= TTL THEN [c |-> c, evicted |-> ev, removed |-> rm]
         ELSE LET c1 == [c EXCEPT !.head = rec.next, !.data = MapDel(c.data, key)]
                  ev1 == IF onEv # Nil THEN MapPut(ev, key, rec.value) ELSE ev
                  rm1 == Append(rm, <<key, rec.value>>)
              IN  IF key = c1.tail
                  THEN [c |-> [c1 EXCEPT !.tail = ZeroK], evicted |-> ev1, removed |-> rm1]
                  ELSE LET c2 == IF rec.next \in DOMAIN c1.data
                                 THEN [c1 EXCEPT !.data[rec.next].prev = ZeroK]
                                 ELSE c1
                       IN  MapTTLCache_cleanup_loop_strict(c2, rec.next, onEv, ev1, rm1, t)

\* The loop of cleanup, from `key`: the cache, the evicted map and the history
\* of deletions when the loop ends.
RECURSIVE MapTTLCache_cleanup_loop(_, _, _, _, _, _)
MapTTLCache_cleanup_loop(c, key, onEv, ev, rm, t) ==
    IF key \notin DOMAIN c.data THEN [c |-> c, evicted |-> ev, removed |-> rm]
    ELSE LET rec == c.data[key] IN
         IF t - rec.timestamp < TTL THEN [c |-> c, evicted |-> ev, removed |-> rm]
         ELSE LET c1 == [c EXCEPT !.head = rec.next, !.data = MapDel(c.data, key)]
                  ev1 == IF onEv # Nil THEN MapPut(ev, key, rec.value) ELSE ev
                  rm1 == Append(rm, <<key, rec.value>>)
              IN  IF key = c1.tail
                  THEN [c |-> [c1 EXCEPT !.tail = ZeroK], evicted |-> ev1, removed |-> rm1]
                  ELSE LET c2 == IF rec.next \in DOMAIN c1.data
                                 THEN [c1 EXCEPT !.data[rec.next].prev = ZeroK]
                                 ELSE c1
                       IN  MapTTLCache_cleanup_loop(c2, rec.next, onEv, ev1, rm1, t)

\* The last step and what it returned: the operation's name and, for an operation
\* that returns something, its key, the value and the flag (found / performed /
\* err == nil) it returned.
Ret(op, key, val, ok) == [op |-> op, key |-> key, val |-> val, ok |-> ok]

NoRet == Ret("none", ZeroK, ZeroV, FALSE)

\* The public operations, each run under the cache's lock at time t: the
\* cache after the operation and what it returned.
MapTTLCache_Set(c, key, value, t) ==
    [c |-> MapTTLCache_set(c, key, value, t), ret |-> Ret("Set", ZeroK, ZeroV, TRUE)]

\* SetIfPresent writing the value into the record where it stands.
MapTTLCache_SetIfPresent_inplace(c, key, value, t) ==
    LET g == MapTTLCache_get(c, key, t)
    IN  IF g[2] = Nil
        THEN [c |-> [c EXCEPT !.data[key].value = value], ret |-> Ret("SetIfPresent", key, g[1], TRUE)]
        ELSE [c |-> c, ret |-> Ret("SetIfPresent", key, g[1], FALSE)]

MapTTLCache_SetIfPresent(c, key, value, t) ==
    LET g == MapTTLCache_get(c, key, t)
    IN  IF g[2] = Nil
        THEN [c |-> MapTTLCache_set(c, key, value, t), ret |-> Ret("SetIfPresent", key, g[1], TRUE)]
        ELSE [c |-> c, ret |-> Ret("SetIfPresent", key, g[1], FALSE)]

MapTTLCache_SetIfAbsent(c, key, value, t) ==
    LET g == MapTTLCache_get(c, key, t)
    IN  IF g[2] = Nil
        THEN [c |-> c, ret |-> Ret("SetIfAbsent", key, g[1], FALSE)]
        ELSE [c |-> MapTTLCache_set(c, key, value, t), ret |-> Ret("SetIfAbsent", key, g[1], TRUE)]

MapTTLCache_Get(c, key, t) ==
    LET g == MapTTLCache_get(c, key, t)
    IN  [c |-> c, ret |-> Ret("Get", key, g[1], g[2] = Nil)]

MapTTLCache_Del(c, key, t) ==
    [c |-> MapTTLCache_del(c, key), ret |-> Ret("Del", ZeroK, ZeroV, TRUE)]

\* Len counting the records Get would return.
MapTTLCache_Len_unexpired(c) ==
    [c |-> c, ret |-> Ret("Len", ZeroK,
                          Cardinality({k \in DOMAIN c.data : now - c.data[k].timestamp < TTL}), TRUE)]

MapTTLCache_Len(c) ==
    [c |-> c, ret |-> Ret("Len", ZeroK, Cardinality(DOMAIN c.data), TRUE)]

\* The callback a client installs; it may call back into the cache.
Callbacks == {"callback"}

MapTTLCache_OnEvict(c, f) ==
    [c |-> [c EXCEPT !.onEvict = f], ret |-> Ret("OnEvict", ZeroK, ZeroV, TRUE)]

\* A call of the cache from any goroutine: it takes the lock, runs and
\* releases the lock, so it happens only while no writer holds the lock.  What
\* it returns is local to its caller, who takes it before any other step.
TTLCall(r) ==
    /\ TTLOnly
    /\ ttlc.mux = "free"
    /\ ttlRet = NoRet
    /\ ttlc' = r.c
    /\ ttlRet' = r.ret

TTLSet(key, value) ==
    /\ TTLCall(MapTTLCache_Set(ttlc, key, value, now))
    /\ UNCHANGED <<now, pc, evicted, cbFn, owed, cbStray>>

TTLSetIfPresent(key, value) ==
    /\ TTLCall(MapTTLCache_SetIfPresent(ttlc, key, value, now))
    /\ UNCHANGED <<now, pc, evicted, cbFn, owed, cbStray>>

TTLSetIfAbsent(key, value) ==
    /\ TTLCall(MapTTLCache_SetIfAbsent(ttlc, key, value, now))
    /\ UNCHANGED <<now, pc, evicted, cbFn, owed, cbStray>>

TTLGet(key) ==
    /\ TTLCall(MapTTLCache_Get(ttlc, key, now))
    /\ UNCHANGED <<now, pc, evicted, cbFn, owed, cbStray>>

TTLDel(key) ==
    /\ TTLCall(MapTTLCache_Del(ttlc, key, now))
    /\ UNCHANGED <<now, pc, evicted, cbFn, owed, cbStray>>

TTLLen ==
    /\ TTLCall(MapTTLCache_Len(ttlc))
    /\ UNCHANGED <<now, pc, evicted, cbFn, owed, cbStray>>

TTLOnEvict(f) ==
    /\ TTLCall(MapTTLCache_OnEvict(ttlc, f))
    /\ UNCHANGED <<now, pc, evicted, cbFn, owed, cbStray>>

\* The caller takes what its call returned.
TTLReturn ==
    /\ TTLOnly
    /\ ttlRet # NoRet
    /\ ttlRet' = NoRet
    /\ UNCHANGED <<ttlc, now, pc, evicted, cbFn, owed, cbStray>>

\* Time passes.
Tick ==
    /\ TTLOnly
    /\ ttlRet = NoRet
    /\ now < StartTime + MaxTicks
    /\ now' = now + 1
    /\ UNCHANGED <<ttlc, pc, evicted, cbFn, owed, cbStray, ttlRet>>

\* cleanup, first part: c.mux.Lock(), the read of c.onEvict and the loop.
MapTTLCache_cleanup_sweep ==
    /\ TTLOnly
    /\ pc = "idle"
    /\ ttlc.mux = "free"
    /\ LET r == MapTTLCache_cleanup_loop(ttlc, ttlc.head, ttlc.onEvict, EmptyMap, << >>, now)
       IN  /\ ttlc' = [r.c EXCEPT !.mux = "sweeper"]
           /\ evicted' = r.evicted
           /\ owed' = IF ttlc.onEvict # Nil THEN r.removed ELSE << >>
    /\ cbFn' = ttlc.onEvict
    /\ cbStray' = FALSE
    /\ pc' = "locked"
    /\ ttlRet = NoRet
    /\ UNCHANGED <<now, ttlRet>>

\* cleanup as a whole while no callback is installed: nothing is left to do once
\* the lock is released, so the pass is one step under the lock.
MapTTLCache_cleanup ==
    /\ TTLOnly
    /\ pc = "idle"
    /\ ttlc.mux = "free"
    /\ ttlc.onEvict = Nil
    /\ ttlRet = NoRet
    /\ ttlc' = MapTTLCache_cleanup_loop(ttlc, ttlc.head, Nil, EmptyMap, << >>, now).c
    /\ UNCHANGED <<now, pc, evicted, cbFn, owed, cbStray, ttlRet>>

\* cleanup with the unlock deferred to its return: the callbacks run under the lock.
MapTTLCache_cleanup_unlock_deferred ==
    /\ TTLOnly
    /\ pc = "locked"
    /\ ttlRet = NoRet
    /\ pc' = "callbacks"
    /\ UNCHANGED <<ttlc, now, evicted, cbFn, owed, cbStray, ttlRet>>

\* cleanup: c.mux.Unlock() after the loop, before the callbacks.
MapTTLCache_cleanup_unlock ==
    /\ TTLOnly
    /\ pc = "locked"
    /\ ttlRet = NoRet
    /\ ttlc' = [ttlc EXCEPT !.mux = "free"]
    /\ pc' = "callbacks"
    /\ UNCHANGED <<now, evicted, cbFn, owed, cbStray, ttlRet>>

\* The history of deletions without the first occurrence of pair p.
RECURSIVE Settle(_, _)
Settle(q, p) ==
    IF q = << >> THEN q
    ELSE IF Head(q) = p THEN Tail(q)
    ELSE <<Head(q)>> \o Settle(Tail(q), p)

Owes(q, p) == \E i \in DOMAIN q : q[i] = p

\* What a callback that calls back into the cache may call, for the entry (k, v).
ReentrantCalls(c, k, v, t) ==
    {MapTTLCache_Set(c, k, v, t), MapTTLCache_Get(c, k, t), MapTTLCache_Del(c, k, t),
     MapTTLCache_Len(c), MapTTLCache_OnEvict(c, "callback")}

\* cleanup: one iteration of `for k, v := range evicted { onEvict(k, v) }`.
\* Go ranges over a map in no particular order.
\* The callback either only takes note of the pair or calls back into the cache
\* (reenter), which takes the cache's lock.
MapTTLCache_cleanup_callback(k, reenter) ==
    /\ TTLOnly
    /\ pc = "callbacks"
    /\ k \in DOMAIN evicted
    /\ evicted' = MapDel(evicted, k)
    /\ owed' = Settle(owed, <<k, evicted[k]>>)
    /\ cbStray' = (cbStray \/ ~Owes(owed, <<k, evicted[k]>>))
    /\ IF reenter
       THEN \E r \in ReentrantCalls(ttlc, k, evicted[k], now) : TTLCall(r)
       ELSE /\ ttlRet = NoRet
            /\ UNCHANGED <<ttlc, ttlRet>>
    /\ UNCHANGED <<now, pc, cbFn>>

\* cleanup returns; the sweeper waits for the next tick of its ticker.
MapTTLCache_cleanup_return ==
    /\ TTLOnly
    /\ pc = "callbacks"
    /\ evicted = EmptyMap
    /\ pc' = "idle"
    /\ ttlRet = NoRet
    /\ cbFn' = Nil
    /\ UNCHANGED <<ttlc, now, evicted, owed, cbStray, ttlRet>>

TTLInit ==
    /\ ttlc = NewMapTTLCache
    /\ now = StartTime
    /\ pc = "idle"
    /\ evicted = EmptyMap
    /\ cbFn = Nil
    /\ owed = << >>
    /\ cbStray = FALSE
    /\ ttlRet = NoRet

\* The clients' calls, time, and the sweeper's passes while no callback is installed.
TTLNext ==
    \/ \E k \in TTLKeys, v \in Vals : TTLSet(k, v)
    \/ \E k \in TTLKeys, v \in Vals : TTLSetIfPresent(k, v)
    \/ \E k \in TTLKeys, v \in Vals : TTLSetIfAbsent(k, v)
    \/ \E k \in TTLKeys : TTLGet(k)
    \/ \E k \in TTLKeys : TTLDel(k)
    \/ TTLLen
    \/ TTLReturn
    \/ Tick
    \/ MapTTLCache_cleanup


\* The cache with an eviction callback: writes, deletions and time, and the
\* sweeper's passes with their callbacks, which may call back into the cache.
TTLEvictNext ==
    \/ \E k \in EvictKeys, v \in Vals : TTLSet(k, v)
    \/ \E k \in EvictKeys : TTLDel(k)
    \/ \E f \in Callbacks : TTLOnEvict(f)
    \/ TTLReturn
    \/ Tick
    \/ MapTTLCache_cleanup_sweep
    \/ MapTTLCache_cleanup_unlock
    \/ \E k \in EvictKeys, reenter \in BOOLEAN : MapTTLCache_cleanup_callback(k, reenter)
    \/ MapTTLCache_cleanup_return

\* The cache of a client that uses the zero value of K as a key among others.
ZeroKeys == 0..MaxZeroKey

TTLZeroNext ==
    \/ \E k \in ZeroKeys, v \in Vals : TTLSet(k, v)
    \/ \E k \in ZeroKeys : TTLGet(k)
    \/ \E k \in ZeroKeys : TTLDel(k)
    \/ TTLReturn
    \/ Tick
    \/ MapTTLCache_cleanup

(***************************************************************************)
(* Claims about MapTTLCache                                                *)
(***************************************************************************)
\* The keys met by following next from k for at most n steps.
RECURSIVE Chain(_, _, _)
Chain(d, k, n) ==
    IF n = 0 \/ k \notin DOMAIN d THEN << >>
    ELSE <<k>> \o Chain(d, d[k].next, n - 1)

SeqElems(q) == {q[i] : i \in DOMAIN q}

\* C1: with keys different from the zero key the linked list agrees with the
\* map after any sequence of Set, SetIfPresent, SetIfAbsent, Del and cleanup
\* passes: an empty map has head = tail = zero; otherwise head.prev = zero,
\* tail.next = zero, prev is the inverse of next, and following next from head
\* visits every key of the map exactly once, in len(data) steps, ending at tail.
C1_ListAgreesWithMap ==
    LET d == ttlc.data
        n == Cardinality(DOMAIN d)
        walk == Chain(d, ttlc.head, n + 1)
    IN  /\ DOMAIN d \subseteq TTLKeys
        /\ d = EmptyMap => ttlc.head = ZeroK /\ ttlc.tail = ZeroK
        /\ d # EmptyMap =>
            /\ ttlc.head \in DOMAIN d /\ ttlc.tail \in DOMAIN d
            /\ d[ttlc.head].prev = ZeroK
            /\ d[ttlc.tail].next = ZeroK
            /\ \A k \in DOMAIN d :
                /\ d[k].next # ZeroK => d[k].next \in DOMAIN d /\ d[d[k].next].prev = k
                /\ d[k].prev # ZeroK => d[k].prev \in DOMAIN d /\ d[d[k].prev].next = k
            /\ Len(walk) = n
            /\ SeqElems(walk) = DOMAIN d
            /\ walk[n] = ttlc.tail

\* C1's case: a record in the middle of a list of three was just set again.
C1_Witness ==
    /\ Cardinality(DOMAIN ttlc.data) = MaxKey
    /\ ttlRet.op = "SetIfPresent" /\ ttlRet.ok
    /\ ttlc.data[ttlc.tail].prev # ZeroK
    /\ ttlc.data[ttlc.tail].timestamp > ttlc.data[ttlc.head].timestamp

\* C5: Get(k) returns the stored value exactly when k is in the map and
\* now - timestamp < ttl, ErrNotFound for an entry of age >= ttl that is still
\* in the map, and changes neither the map nor the list, head or tail.
C5_GetReadsUnexpired ==
    [][ttlRet'.op = "Get" =>
        /\ ttlc' = ttlc
        /\ LET k == ttlRet'.key
               live == k \in DOMAIN ttlc.data /\ now - ttlc.data[k].timestamp < TTL
           IN  /\ ttlRet'.ok <=> live
               /\ live => ttlRet'.val = ttlc.data[k].value]_vars

\* C5's case: Get reported ErrNotFound for an entry that is still in the map.
C5_Witness ==
    /\ ttlRet.op = "Get" /\ ~ttlRet.ok
    /\ ttlRet.key \in DOMAIN ttlc.data

\* The pairs waiting in cleanup's evicted map are exactly the pairs owed.
OwedIsEvicted ==
    /\ Len(owed) = Cardinality(DOMAIN evicted)
    /\ \A i \in DOMAIN owed : /\ owed[i][1] \in DOMAIN evicted
                              /\ evicted[owed[i][1]] = owed[i][2]

\* C6: with a callback installed, every entry a cleanup pass removes gets
\* exactly one callback invocation, with its key and the value it held when it
\* was removed; Del invokes no callback and a deleted entry gets none later.
C6_OneCallbackPerEviction ==
    [][/\ cbFn' # Nil => OwedIsEvicted' /\ ~cbStray'
       /\ (\E k \in TTLKeys : TTLDel(k)) => UNCHANGED <<evicted, owed, cbStray>>
       /\ pc' = "idle" => owed' = << >>]_vars

\* C6's case: while a pair a pass removed waits for its callback, a Del has
\* returned and the map is empty.
C6_Witness ==
    /\ pc = "callbacks" /\ cbFn # Nil
    /\ Len(owed) = 1
    /\ ttlRet.op = "Del"
    /\ ttlc.data = EmptyMap

\* C7: the callbacks run only after cleanup released the write lock, so a
\* callback that calls back into the cache is never blocked by its own pass.
C7_CallbacksOutsideLock ==
    pc = "callbacks" =>
        /\ ttlc.mux = "free"
        /\ ttlRet = NoRet =>
            \A k \in DOMAIN evicted : ENABLED MapTTLCache_cleanup_callback(k, TRUE)

\* C7's case: a callback has called Get or Len on the cache and returned.
C7_Witness ==
    /\ pc = "callbacks"
    /\ ttlRet.op \in {"Get", "Len"}

\* C24 as the specification states it: within one cleanup pass the callbacks are
\* invoked in FIFO order, the order in which the evicted entries stood in the
\* list from head (oldest) to newest.
C24_CallbacksInListOrder ==
    [][\A k \in EvictKeys, reenter \in BOOLEAN :
        MapTTLCache_cleanup_callback(k, reenter) => owed # << >> /\ owed[1][1] = k]_vars

\* C24: within one cleanup pass the eviction callbacks are invoked once for each
\* evicted entry, in the order in which Go ranges over the map the pass collected
\* them in, which need not be the order in which the entries stood in the list:
\* whichever position an entry had in the list, its callback may be the next.
C24_CallbacksInAnyOrder ==
    pc = "callbacks" /\ ttlRet = NoRet =>
        /\ \A i \in DOMAIN owed : ENABLED MapTTLCache_cleanup_callback(owed[i][1], FALSE)
        /\ \A i, j \in DOMAIN owed : owed[i][1] = owed[j][1] => i = j

\* C24's case: a pass evicted two entries and released the lock; neither
\* callback has been invoked yet.
C24_Witness ==
    /\ pc = "callbacks" /\ ttlRet = NoRet
    /\ Len(owed) = 2
    /\ Cardinality(DOMAIN evicted) = 2

\* The keys of the list from head to tail.
ListOrder(c) == Chain(c.data, c.head, Cardinality(DOMAIN c.data))

\* The sequence q without the key k.
RECURSIVE OrderWithout(_, _)
OrderWithout(q, k) ==
    IF q = << >> THEN q
    ELSE IF Head(q) = k THEN OrderWithout(Tail(q), k)
    ELSE <<Head(q)>> \o OrderWithout(Tail(q), k)

\* Get(key) would succeed on c at time t.
Readable(c, key, t) == key \in DOMAIN c.data /\ t - c.data[key].timestamp < TTL

\* C21: SetIfPresent(k, v) on a key that is present and not expired replaces
\* the value, resets the timestamp to now, moves the entry to the tail of the
\* list as a fresh Set would, and returns (previous value, true); the entry
\* then stays readable for a full ttl counted from the call.
C21_SetIfPresentRefreshes ==
    [][\A k \in TTLKeys, v \in Vals :
        TTLSetIfPresent(k, v) /\ Readable(ttlc, k, now) =>
            /\ ttlRet' = Ret("SetIfPresent", k, ttlc.data[k].value, TRUE)
            /\ ttlc'.data[k].value = v
            /\ ttlc'.data[k].timestamp = now
            /\ ttlc'.tail = k
            /\ ListOrder(ttlc') = Append(OrderWithout(ListOrder(ttlc), k), k)
            /\ ListOrder(ttlc') = ListOrder(MapTTLCache_Set(ttlc, k, v, now).c)
            /\ \A j \in DOMAIN ttlc.data \ {k} :
                   /\ ttlc'.data[j].value = ttlc.data[j].value
                   /\ ttlc'.data[j].timestamp = ttlc.data[j].timestamp
            /\ \A t \in now..(now + TTL - 1) : MapTTLCache_get(ttlc', k, t) = <<v, Nil>>
            /\ MapTTLCache_get(ttlc', k, now + TTL)[2] = ErrNotFound]_vars

\* C21's case: the oldest of three entries, one tick old, was written by
\* SetIfPresent with another value and now is the newest, at the tail.
C21_Witness ==
    /\ ttlRet.op = "SetIfPresent" /\ ttlRet.ok
    /\ Cardinality(DOMAIN ttlc.data) = MaxKey
    /\ ttlc.tail = ttlRet.key
    /\ ttlc.data[ttlRet.key].value # ttlRet.val
    /\ ttlc.data[ttlRet.key].timestamp = now
    /\ \A j \in DOMAIN ttlc.data \ {ttlRet.key} : ttlc.data[j].timestamp = now - 1

\* C22: SetIfPresent(k, v) on a key that is absent, or present but expired
\* (now - timestamp >= ttl), returns (zero value of V, false) and changes neither
\* the map nor the list.
C22_SetIfPresentMissReturnsZero ==
    [][\A k \in TTLKeys, v \in Vals :
        TTLSetIfPresent(k, v) /\ ~Readable(ttlc, k, now) =>
            /\ ttlRet' = Ret("SetIfPresent", k, ZeroV, FALSE)
            /\ ttlc' = ttlc]_vars

\* C23 as the specification states it: Len() equals the number of keys for which
\* Get would succeed at that moment, whether or not the sweeper has run since
\* entries expired.
C23_LenCountsReadable ==
    ttlRet.op = "Len" => ttlRet.val = Cardinality({k \in TTLKeys : Readable(ttlc, k, now)})

\* C23: Len() equals the number of distinct keys in the map, the expired entries
\* the sweeper has not removed yet included: the number of keys for which Get
\* would succeed at that moment plus the number of expired entries still in the
\* list; the two numbers agree once the sweeper has run since entries expired.
C23_LenCountsRecords ==
    [][/\ TTLLen =>
            /\ ttlRet'.val = Cardinality({k \in TTLKeys : Readable(ttlc, k, now)})
                              + Cardinality({i \in DOMAIN ListOrder(ttlc) :
                                                ~Readable(ttlc, ListOrder(ttlc)[i], now)})
            /\ ttlc' = ttlc
       /\ MapTTLCache_cleanup =>
            MapTTLCache_Len(ttlc').ret.val = Cardinality({k \in TTLKeys : Readable(ttlc', k, now)})]_vars

\* C23's case: Len returned 2 while one of the two entries in the map has expired.
C23_Witness ==
    /\ ttlRet.op = "Len" /\ ttlRet.val = 2
    /\ Cardinality({k \in TTLKeys : Readable(ttlc, k, now)}) = 1

\* C32: with a clock that never goes back, after any sequence of Set,
\* SetIfPresent, SetIfAbsent, Del and cleanup passes, a re-set of the head, of a
\* middle entry or of the tail included, the timestamps of the entries are
\* non-decreasing along the next pointers from head to tail.
C32_TimestampsNonDecreasing ==
    LET q == ListOrder(ttlc)
    IN  /\ Len(q) = Cardinality(DOMAIN ttlc.data)
        /\ \A i \in 1..(Len(q) - 1) :
               ttlc.data[q[i]].timestamp <= ttlc.data[q[i + 1]].timestamp

\* C32's case: three entries with three different timestamps, the newest of them
\* written at the present time by a call that has just returned.
C32_Witness ==
    /\ ttlRet.op \in {"Set", "SetIfPresent", "SetIfAbsent"}
    /\ Len(ListOrder(ttlc)) = MaxKey
    /\ ttlc.data[ListOrder(ttlc)[1]].timestamp < ttlc.data[ListOrder(ttlc)[2]].timestamp
    /\ ttlc.data[ListOrder(ttlc)[2]].timestamp < ttlc.data[ListOrder(ttlc)[3]].timestamp
    /\ ttlc.data[ttlc.tail].timestamp = now

\* The entries of q that Get would return on c at time t, in the order of q.
RECURSIVE ReadableOf(_, _, _)
ReadableOf(c, q, t) ==
    IF q = << >> THEN q
    ELSE IF Readable(c, Head(q), t) THEN <<Head(q)>> \o ReadableOf(c, Tail(q), t)
    ELSE ReadableOf(c, Tail(q), t)

\* What a step that is the loop of a cleanup pass does to the cache: no expired
\* entry is left, every unexpired entry is kept as it was and the list links the
\* kept entries in their old order, from the first of them as head to the last
\* of them as tail; nothing kept means an empty map with head = tail = zero.
CleanupRemovesExpired ==
    LET kept == ReadableOf(ttlc, ListOrder(ttlc), now)
    IN  /\ \A k \in DOMAIN ttlc'.data : Readable(ttlc', k, now)
        /\ \A k \in DOMAIN ttlc.data :
               Readable(ttlc, k, now) =>
                   /\ k \in DOMAIN ttlc'.data
                   /\ ttlc'.data[k].value = ttlc.data[k].value
                   /\ ttlc'.data[k].timestamp = ttlc.data[k].timestamp
        /\ ListOrder(ttlc') = kept
        /\ Cardinality(DOMAIN ttlc'.data) = Len(kept)
        /\ kept # << >> =>
               /\ ttlc'.head = kept[1] /\ ttlc'.data[kept[1]].prev = ZeroK
               /\ ttlc'.tail = kept[Len(kept)] /\ ttlc'.data[ttlc'.tail].next = ZeroK
        /\ kept = << >> =>
               /\ MapTTLCache_Len(ttlc').ret.val = 0
               /\ ttlc'.head = ZeroK /\ ttlc'.tail = ZeroK

\* C33: a cleanup pass removes exactly the entries that Get already reports as
\* expired: right after the pass no entry with now - timestamp >= ttl is left in
\* the map and every entry with now - timestamp < ttl that was there before is
\* still there and still linked; when all entries have expired, one pass leaves
\* Len() = 0 and head = tail = zero, also after a head or tail key was re-set.
C33_CleanupRemovesExpired ==
    [][MapTTLCache_cleanup_sweep => CleanupRemovesExpired]_vars

\* The same for the passes of a cache without a callback, with three keys and
\* SetIfPresent and SetIfAbsent among the calls.
CleanupRemovesExpiredNoCallback ==
    [][MapTTLCache_cleanup => CleanupRemovesExpired]_vars

\* C33's case: a pass has just removed the expired head and has kept the other
\* entry, which had not expired.
C33_Witness ==
    /\ pc = "locked" /\ cbFn # Nil
    /\ Len(owed) = 1
    /\ Cardinality(DOMAIN ttlc.data) = 1
    /\ Readable(ttlc, ttlc.head, now)

\* C38: with the zero value of K used as a key among other keys, the entry is
\* linked like any other: after any sequence of Set, Del and cleanup passes the
\* list reaches every key of the map from head.
C38_ZeroKeyIsLinked ==
    SeqElems(Chain(ttlc.data, ttlc.head, Cardinality(DOMAIN ttlc.data) + 1)) = DOMAIN ttlc.data

\* The passes of such a cache: every expired entry, the zero-key entry and the
\* entries set after it included, is removed by the next cleanup pass.
ZeroKeyIsSwept ==
    [][MapTTLCache_cleanup => \A k \in DOMAIN ttlc'.data : Readable(ttlc', k, now)]_vars

(***************************************************************************)
(* MapCache (map.go), the cache the Updater wraps.                         *)
(***************************************************************************)
NewMapCache == EmptyMap

MapCache_Set(data, key, value) == MapPut(data, key, value)

\* <<value, err>>
MapCache_Get(data, key) ==
    IF key \in DOMAIN data THEN <<data[key], Nil>> ELSE <<ZeroV, ErrNotFound>>

MapCache_Del(data, key) == MapDel(data, key)

(***************************************************************************)
(* Updater (updater.go).  Every goroutine of Callers runs Updater.Get over *)
(* and over; each action below is one step of Get between two points      *)
(* where another goroutine can observe or change the Updater.  A channel   *)
(* is named by the goroutine that made it (a goroutine has at most one     *)
(* open channel); a closed channel is "closed" to whoever holds it.        *)
(***************************************************************************)
ErrUpdate == "ErrUpdate"
\* A nil channel, and a closed one.
NoChan == 0
Closed == 0 - 1

Callers == 1..NumCallers
UpdKeys == 1..MaxUpdKey
UpdVals == 1..MaxUpdVal

\* NewCacheUpdater; pool is the number of tokens in the channel, poolSize its capacity.
NewCacheUpdater(poolSize) ==
    [cache |-> NewMapCache, pool |-> 0, poolSize |-> poolSize, inFlight |-> EmptyMap]

Idle == [pc |-> "idle", key |-> ZeroK, v |-> ZeroV, err |-> Nil, ch |-> NoChan]

UpdResult(p, key, v, err, how) == [caller |-> p, key |-> key, v |-> v, err |-> err, how |-> how]
NoUpdRet == UpdResult(0, ZeroK, ZeroV, Nil, "none")

\* How the load a Get depends on ended: for the goroutine that ran updateFn,
\* what updateFn returned to it; for a waiter released by the close of the
\* channel, the value and the error the load it waited for ended with.  For a
\* released waiter, v follows a later load of the key that writes the cache
\* before the waiter reads it; del tells that the key was deleted after the
\* load wrote it.
\* The record is kept until the caller of Get has taken the result.
Signal(v, err) == [v |-> v, err |-> err, del |-> FALSE]
NoSignal == Signal(ZeroV, "none")

At(p, l) == callers[p].pc = l /\ updRet = NoUpdRet

Goto(p, l) == callers' = [callers EXCEPT ![p].pc = l]

\* Get returns to its caller.
UpdaterReturn(p, key, v, err, how) ==
    /\ updRet' = UpdResult(p, key, v, err, how)
    /\ callers' = [callers EXCEPT ![p] = Idle]

\* Get, line 77: the first read of the cache; a hit returns at line 119.
Updater_Get(p, key) ==
    /\ UpdOnly
    /\ At(p, "idle")
    /\ LET r == MapCache_Get(updater.cache, key) IN
       IF r[2] = ErrNotFound
       THEN /\ callers' = [callers EXCEPT ![p] = [pc |-> "wait", key |-> key, v |-> r[1],
                                                   err |-> r[2], ch |-> NoChan]]
            /\ UNCHANGED updRet
       ELSE UpdaterReturn(p, key, r[1], r[2], "hit")
    /\ UNCHANGED <<updater, calls, tainted, signal>>

\* waitInFlight, lines 47-53: the look-up of the key's channel under the read lock.
Updater_waitInFlight(p) ==
    /\ UpdOnly
    /\ At(p, "wait")
    /\ LET key == callers[p].key IN
       IF key \in DOMAIN updater.inFlight
       THEN callers' = [callers EXCEPT ![p].pc = "recv", ![p].ch = updater.inFlight[key]]
       ELSE Goto(p, "acquire")
    /\ UNCHANGED <<updater, calls, tainted, updRet, signal>>

\* waitInFlight line 55 and Get line 84: the receive completes once the channel
\* is closed, and Get returns what the cache holds then.
Updater_recv(p) ==
    /\ UpdOnly
    /\ At(p, "recv")
    /\ callers[p].ch = Closed
    /\ LET r == MapCache_Get(updater.cache, callers[p].key) IN
       UpdaterReturn(p, callers[p].key, r[1], r[2], "waited")
    /\ UNCHANGED <<updater, calls, tainted, signal>>

\* The same step without the bound of the buffered channel.
Updater_acquire_unbounded(p) ==
    /\ UpdOnly
    /\ At(p, "acquire")
    /\ updater' = [updater EXCEPT !.pool = @ + 1]
    /\ Goto(p, "check")
    /\ UNCHANGED <<calls, tainted, updRet, signal>>

\* Get, line 88: the send to the pool blocks while the pool holds poolSize tokens.
Updater_acquire(p) ==
    /\ UpdOnly
    /\ At(p, "acquire")
    /\ updater.pool < updater.poolSize
    /\ updater' = [updater EXCEPT !.pool = @ + 1]
    /\ Goto(p, "check")
    /\ UNCHANGED <<calls, tainted, updRet, signal>>

\* The same step without the second look at inFlight.
Updater_check_norecheck(p) ==
    /\ UpdOnly
    /\ At(p, "check")
    /\ updater' = [updater EXCEPT !.inFlight = MapPut(@, callers[p].key, p)]
    /\ Goto(p, "update")
    /\ UNCHANGED <<calls, tainted, updRet, signal>>

\* Get, lines 90-101: under the write lock, either the key is in flight by now
\* (the token goes back and Get starts over at wait), or the goroutine registers
\* its channel.
Updater_check(p) ==
    /\ UpdOnly
    /\ At(p, "check")
    /\ LET key == callers[p].key IN
       IF key \in DOMAIN updater.inFlight
       THEN /\ updater' = [updater EXCEPT !.pool = @ - 1]
            /\ Goto(p, "wait")
       ELSE /\ updater' = [updater EXCEPT !.inFlight = MapPut(@, key, p)]
            /\ Goto(p, "update")
    /\ UNCHANGED <<calls, tainted, updRet, signal>>

Bump(n) == IF n < MaxCalls THEN n + 1 ELSE n

\* Get, line 111: updateFn is called.
Updater_updateFn_call(p) ==
    /\ UpdOnly
    /\ At(p, "update")
    /\ Goto(p, "running")
    /\ calls' = [calls EXCEPT ![callers[p].key] = Bump(@)]
    /\ UNCHANGED <<updater, tainted, updRet, signal>>

\* The same step going on to line 116 after an error too.
Updater_updateFn_return_cached(p, v, ok) ==
    /\ UpdOnly
    /\ At(p, "running")
    /\ IF ok
       THEN /\ callers' = [callers EXCEPT ![p].pc = "set", ![p].v = v, ![p].err = Nil]
            /\ UNCHANGED tainted
       ELSE /\ callers' = [callers EXCEPT ![p].pc = "set", ![p].v = ZeroV,
                                          ![p].err = ErrUpdate]
            /\ tainted' = [tainted EXCEPT ![callers[p].key] = TRUE]
    /\ signal' = [signal EXCEPT ![p] = IF ok THEN Signal(v, Nil)
                                         ELSE Signal(ZeroV, ErrUpdate)]
    /\ UNCHANGED <<updater, calls, updRet>>

\* Get, lines 111-114: updateFn returns a value or an error.
Updater_updateFn_return(p, v, ok) ==
    /\ UpdOnly
    /\ At(p, "running")
    /\ IF ok
       THEN /\ callers' = [callers EXCEPT ![p].pc = "set", ![p].v = v, ![p].err = Nil]
            /\ UNCHANGED tainted
       ELSE /\ callers' = [callers EXCEPT ![p].pc = "deferred", ![p].v = ZeroV,
                                          ![p].err = ErrUpdate]
            /\ tainted' = [tainted EXCEPT ![callers[p].key] = TRUE]
    /\ signal' = [signal EXCEPT ![p] = IF ok THEN Signal(v, Nil)
                                         ELSE Signal(ZeroV, ErrUpdate)]
    /\ UNCHANGED <<updater, calls, updRet>>

\* The same step with the write to the cache left out.
Updater_set_skipped(p) ==
    /\ UpdOnly
    /\ At(p, "set")
    /\ Goto(p, "deferred")
    /\ UNCHANGED <<updater, calls, tainted, updRet, signal>>

\* Get, line 116.
Updater_set(p) ==
    /\ UpdOnly
    /\ At(p, "set")
    /\ updater' = [updater EXCEPT !.cache = MapCache_Set(@, callers[p].key, callers[p].v)]
    /\ Goto(p, "deferred")
    /\ signal' = [q \in Callers |->
                    IF callers[q].pc = "recv" /\ signal[q] # NoSignal
                          /\ callers[q].key = callers[p].key
                    THEN [signal[q] EXCEPT !.v = callers[p].v]
                    ELSE signal[q]]
    /\ UNCHANGED <<calls, tainted, updRet>>

\* The deferred function, lines 104-107: close the channel, drop the key.
Updater_deferred(p) ==
    /\ UpdOnly
    /\ At(p, "deferred")
    /\ updater' = [updater EXCEPT !.inFlight = MapDel(@, callers[p].key)]
    /\ callers' = [q \in Callers |->
                     IF q = p THEN [callers[p] EXCEPT !.pc = "release"]
                     ELSE IF callers[q].ch = p THEN [callers[q] EXCEPT !.ch = Closed]
                     ELSE callers[q]]
    /\ signal' = [q \in Callers |->
                    IF q # p /\ callers[q].ch = p
                    THEN signal[p]
                    ELSE signal[q]]
    /\ UNCHANGED <<calls, tainted, updRet>>

\* The deferred function, line 108, and the return of Get.
Updater_release(p) ==
    /\ UpdOnly
    /\ At(p, "release")
    /\ updater' = [updater EXCEPT !.pool = @ - 1]
    /\ UpdaterReturn(p, callers[p].key, callers[p].v, callers[p].err, "loaded")
    /\ UNCHANGED <<calls, tainted, signal>>

\* Updater.Del, lines 123-125.
Updater_Del(key) ==
    /\ UpdOnly
    /\ updRet = NoUpdRet
    /\ updater' = [updater EXCEPT !.cache = MapCache_Del(@, key)]
    /\ tainted' = [tainted EXCEPT ![key] = TRUE]
    /\ signal' = [q \in Callers |->
                    IF callers[q].pc \in {"recv", "deferred"} /\ signal[q] # NoSignal
                          /\ callers[q].key = key
                    THEN [signal[q] EXCEPT !.del = TRUE]
                    ELSE signal[q]]
    /\ UNCHANGED <<callers, calls, updRet>>

\* The caller has taken the result.
UpdReturn ==
    /\ UpdOnly
    /\ updRet # NoUpdRet
    /\ updRet' = NoUpdRet
    /\ signal' = [signal EXCEPT ![updRet.caller] = NoSignal]
    /\ UNCHANGED <<updater, callers, calls, tainted>>

\* An Updater made with one of poolSizes.
UpdInit(poolSizes) ==
    /\ \E poolSize \in poolSizes : updater = NewCacheUpdater(poolSize)
    /\ callers = [p \in Callers |-> Idle]
    /\ calls = [k \in UpdKeys |-> 0]
    /\ tainted = [k \in UpdKeys |-> FALSE]
    /\ signal = [p \in Callers |-> NoSignal]
    /\ updRet = NoUpdRet

UpdNext ==
    \/ \E p \in Callers, k \in UpdKeys : Updater_Get(p, k)
    \/ \E p \in Callers : Updater_waitInFlight(p)
    \/ \E p \in Callers : Updater_recv(p)
    \/ \E p \in Callers : Updater_acquire(p)
    \/ \E p \in Callers : Updater_check(p)
    \/ \E p \in Callers : Updater_updateFn_call(p)
    \/ \E p \in Callers, v \in UpdVals, ok \in BOOLEAN : Updater_updateFn_return(p, v, ok)
    \/ \E p \in Callers : Updater_set(p)
    \/ \E p \in Callers : Updater_deferred(p)
    \/ \E p \in Callers : Updater_release(p)
    \/ \E k \in UpdKeys : Updater_Del(k)
    \/ UpdReturn

\* The steps of the Get that goroutine p is inside.
Updater_step(p) ==
    \/ Updater_waitInFlight(p)
    \/ Updater_recv(p)
    \/ Updater_acquire(p)
    \/ Updater_check(p)
    \/ Updater_updateFn_call(p)
    \/ \E v \in UpdVals, ok \in BOOLEAN : Updater_updateFn_return(p, v, ok)
    \/ Updater_set(p)
    \/ Updater_deferred(p)
    \/ Updater_release(p)

UpdFairNext ==
    \/ \E p \in Callers, k \in 1..MaxFairKey : Updater_Get(p, k)
    \/ \E p \in Callers : Updater_step(p)
    \/ \E k \in 1..MaxFairKey : Updater_Del(k)
    \/ UpdReturn

\* The scheduler runs every goroutine that can take a step, updateFn always
\* returns, a closed channel stays closed, and the senders blocked on the full
\* pool are served in the order of their arrival, so the step a goroutine is
\* at happens if it can happen again and again.  (A step cannot happen for a
\* moment while a result is handed to a caller, hence strong fairness for
\* every step and not only for the send to the pool.)
UpdFairness ==
    /\ \A p \in Callers : SF_vars(Updater_step(p))
    /\ WF_vars(UpdReturn)

(***************************************************************************)
(* Claims about Updater                                                    *)
(***************************************************************************)
Running(k) == {p \in Callers : callers[p].pc = "running" /\ callers[p].key = k}

\* C2: at every moment at most one invocation of updateFn is running for any
\* given key, whatever the number of concurrent Get callers and the
\* interleaving; a caller that passed the first in-flight check and holds a pool
\* token while the key's load runs does not start a second load.
C2_OneUpdatePerKey == \A k \in UpdKeys : Cardinality(Running(k)) <= 1

\* A load of k is running while another caller of Get(k), who found nothing in
\* flight at its first look, holds a pool token and is about to look again.
C2_Witness ==
    \E p, q \in Callers :
        /\ callers[p].pc = "running"
        /\ callers[q].pc = "check"
        /\ callers[q].key = callers[p].key

\* C3: when several Get(k) calls hit the cache concurrently and miss, updateFn(k)
\* is invoked exactly once in total.  While no updateFn(k) has failed and k has
\* not been deleted, every Get(k) that misses overlaps the first load of k, so
\* the claim says that updateFn(k) is invoked at most once until then.
C3_LoadedOnce == \A k \in UpdKeys : ~tainted[k] => calls[k] <= 1

\* C4: the number of updateFn invocations running at the same time never
\* exceeds poolSize.
C4_PoolBoundsUpdates ==
    Cardinality({p \in Callers : callers[p].pc = "running"}) <= updater.poolSize

\* poolSize loads are running and a Get of a key that is not in flight waits
\* for a token.
C4_Witness ==
    /\ Cardinality({p \in Callers : callers[p].pc = "running"}) = updater.poolSize
    /\ \E q \in Callers :
          /\ callers[q].pc = "acquire"
          /\ callers[q].key \notin DOMAIN updater.inFlight

C17_FailedLoadLeavesNothing ==
    [][/\ \A p \in Callers :
              signal'[p].err = ErrUpdate /\ callers'[p] # callers[p] =>
                  /\ updater'.cache = updater.cache
                  /\ callers[p].pc = "deferred" =>
                         callers[p].key \notin DOMAIN updater'.inFlight
                  /\ callers[p].pc = "release" =>
                         /\ updater'.pool = updater.pool - 1
                         /\ updRet' = UpdResult(p, callers[p].key, ZeroV, ErrUpdate, "loaded")
       /\ updRet'.how = "hit" => updRet'.err = Nil
       /\ \A p \in Callers, k \in UpdKeys :
              Updater_Get(p, k) /\ k \notin DOMAIN updater.cache => callers'[p].pc = "wait"
      ]_vars

\* A Get has just returned the error of its own load, which was the second
\* invocation of updateFn for the key; the key is neither in the cache nor in
\* flight, and no pool token is held.
C17_Witness ==
    /\ updRet.how = "loaded"
    /\ updRet.err = ErrUpdate
    /\ calls[updRet.key] = 2
    /\ updRet.key \notin DOMAIN updater.cache
    /\ updRet.key \notin DOMAIN updater.inFlight
    /\ updater.pool = 0

\* C18: whenever a Get(k) misses the cache and the update of k fails, the Get
\* returns the error updateFn returned and not ErrNotFound, whether the Get ran
\* the load itself or waited for the load of another caller.
C18_FailedGetReturnsUpdateError ==
    updRet.how \in {"loaded", "waited"} /\ signal[updRet.caller].err = ErrUpdate
        => updRet.err = ErrUpdate

\* C19: with poolSize >= 1 and an updateFn that always returns, every Get
\* eventually returns: a goroutine waiting for an in-flight load is released
\* when the load finishes, successful or not, a goroutine blocked on the full
\* pool eventually gets a token, and once no Get is in progress the in-flight
\* map is empty and the pool holds no token.
C19_EveryGetReturns ==
    /\ \A p \in Callers : (callers[p].pc # "idle") ~> (callers[p].pc = "idle")
    /\ \A p \in Callers : (callers[p].pc = "acquire") ~> (callers[p].pc = "check")
    /\ []((\A p \in Callers : callers[p].pc = "idle")
            => updater.inFlight = EmptyMap /\ updater.pool = 0)

(***************************************************************************)
(* RingBuffer (ring.go).  Slots are numbered from 0 as in the code; slot i *)
(* is data[i + 1] here.                                                    *)
(***************************************************************************)
RingKeys == 1..MaxRingKey

BufferRec(k, v, empty) == [K |-> k, V |-> v, empty |-> empty]

\* NewRingBuffer
NewRingBuffer(size) ==
    [data |-> [i \in 1..size |-> BufferRec(ZeroK, ZeroV, TRUE)], index |-> EmptyMap, head |-> 0]

\* set that leaves the overwritten slot's key in the index.
RingBuffer_set_keepindex(c, key, value) ==
    [data |-> [c.data EXCEPT ![c.head + 1] = BufferRec(key, value, FALSE)],
     index |-> MapPut(c.index, key, c.head),
     head |-> (c.head + 1) % Len(c.data)]

\* set
RingBuffer_set(c, key, value) ==
    LET old == c.data[c.head + 1]
        index == IF ~old.empty THEN MapDel(c.index, old.K) ELSE c.index
    IN  [data |-> [c.data EXCEPT ![c.head + 1] = BufferRec(key, value, FALSE)],
         index |-> MapPut(index, key, c.head),
         head |-> (c.head + 1) % Len(c.data)]

RingResult(op, val, ok, list) == [op |-> op, val |-> val, ok |-> ok, list |-> list]
NoRingRet == RingResult("none", ZeroV, FALSE, << >>)

\* The public operations: [c |-> the buffer afterwards, ret |-> what the call returned].
RingBuffer_Set(c, key, value) ==
    [c |-> RingBuffer_set(c, key, value), ret |-> RingResult("Set", ZeroV, TRUE, << >>)]

\* SetIfPresent writing a present key through set, as Set does.
RingBuffer_SetIfPresent_set(c, key, value) ==
    IF key \in DOMAIN c.index
    THEN [c |-> RingBuffer_set(c, key, value),
          ret |-> RingResult("SetIfPresent", c.data[c.index[key] + 1].V, TRUE, << >>)]
    ELSE [c |-> c, ret |-> RingResult("SetIfPresent", ZeroV, FALSE, << >>)]

RingBuffer_SetIfPresent(c, key, value) ==
    IF key \in DOMAIN c.index
    THEN LET i == c.index[key] IN
         [c |-> [c EXCEPT !.data[i + 1].V = value],
          ret |-> RingResult("SetIfPresent", c.data[i + 1].V, TRUE, << >>)]
    ELSE [c |-> c, ret |-> RingResult("SetIfPresent", ZeroV, FALSE, << >>)]

RingBuffer_SetIfAbsent(c, key, value) ==
    IF key \in DOMAIN c.index
    THEN [c |-> c, ret |-> RingResult("SetIfAbsent", c.data[c.index[key] + 1].V, FALSE, << >>)]
    ELSE [c |-> RingBuffer_set(c, key, value),
          ret |-> RingResult("SetIfAbsent", ZeroV, TRUE, << >>)]

\* <<value, err>>
RingBuffer_Get(c, key) ==
    IF key \notin DOMAIN c.index
    THEN <<ZeroV, ErrNotFound>>
    ELSE <<c.data[c.index[key] + 1].V, Nil>>

\* Del that empties the slot and forgets to drop the key from the index.
RingBuffer_Del_keepindex(c, key) ==
    IF key \notin DOMAIN c.index
    THEN c
    ELSE [c EXCEPT !.data[c.index[key] + 1].empty = TRUE]

RingBuffer_Del(c, key) ==
    IF key \notin DOMAIN c.index
    THEN c
    ELSE [c EXCEPT !.data[c.index[key] + 1].empty = TRUE, !.index = MapDel(@, key)]

RingBuffer_Len(c) == Cardinality(DOMAIN c.index)

\* The listing functions walk the slots head, head+1, ... around the ring and
\* skip the empty ones; res[i] is res after i rounds of the loop.
\* ListAll
RingBuffer_ListAll(c) ==
    LET n == Len(c.data)
        res[i \in 0..n] ==
            IF i = 0 THEN << >>
            ELSE LET idx == (c.head + (i - 1)) % n IN
                 IF c.data[idx + 1].empty THEN res[i - 1]
                 ELSE Append(res[i - 1], <<c.data[idx + 1].K, c.data[idx + 1].V>>)
    IN  res[n]

\* ListAllValues
RingBuffer_ListAllValues(c) ==
    LET n == Len(c.data)
        res[i \in 0..n] ==
            IF i = 0 THEN << >>
            ELSE LET idx == (c.head + (i - 1)) % n IN
                 IF c.data[idx + 1].empty THEN res[i - 1]
                 ELSE Append(res[i - 1], c.data[idx + 1].V)
    IN  res[n]

\* ListAllKeys
RingBuffer_ListAllKeys(c) ==
    LET n == Len(c.data)
        res[i \in 0..n] ==
            IF i = 0 THEN << >>
            ELSE LET idx == (c.head + (i - 1)) % n IN
                 IF c.data[idx + 1].empty THEN res[i - 1]
                 ELSE Append(res[i - 1], c.data[idx + 1].K)
    IN  res[n]

\* All: the pairs yielded to a loop body that never breaks.
RingBuffer_All(c) ==
    LET n == Len(c.data)
        res[i \in 0..n] ==
            IF i = 0 THEN << >>
            ELSE LET idx == (c.head + (i - 1)) % n IN
                 IF c.data[idx + 1].empty THEN res[i - 1]
                 ELSE Append(res[i - 1], <<c.data[idx + 1].K, c.data[idx + 1].V>>)
    IN  res[n]

\* History: s without the key k.
Without(s, k) == SelectSeq(s, LAMBDA x : x # k)

\* History: the ages after a slot-consuming write of key k into a buffer of n slots.
Aged(age, k, n) ==
    [x \in (DOMAIN age) \cup {k} |-> IF x = k THEN 0 ELSE IF age[x] + 1 < n THEN age[x] + 1 ELSE n]

RingCall(r, order, last, pristine) ==
    /\ RingOnly
    /\ ringRet = NoRingRet
    /\ ring' = r.c
    /\ ringRet' = r.ret
    /\ ringOrder' = order
    /\ ringLast' = last
    /\ ringPristine' = pristine

RingSet(key, value) ==
    /\ RingCall(RingBuffer_Set(ring, key, value),
                Append(Without(ringOrder, key), key), MapPut(ringLast, key, value),
                ringPristine /\ key \notin SeqElems(ringOrder))
    /\ ringAge' = Aged(ringAge, key, Len(ring.data))

RingSetIfPresent(key, value) ==
    LET r == RingBuffer_SetIfPresent(ring, key, value) IN
    /\ RingCall(r, ringOrder, IF r.ret.ok THEN MapPut(ringLast, key, value) ELSE ringLast, FALSE)
    /\ ringAge' = ringAge

RingSetIfAbsent(key, value) ==
    LET r == RingBuffer_SetIfAbsent(ring, key, value) IN
    IF r.ret.ok
    THEN /\ RingCall(r, Append(Without(ringOrder, key), key), MapPut(ringLast, key, value), FALSE)
         /\ ringAge' = Aged(ringAge, key, Len(ring.data))
    ELSE /\ RingCall(r, ringOrder, ringLast, FALSE)
         /\ ringAge' = ringAge

RingGet(key) ==
    LET r == RingBuffer_Get(ring, key) IN
    /\ RingCall([c |-> ring, ret |-> RingResult("Get", r[1], r[2] = Nil, << >>)],
                ringOrder, ringLast, ringPristine)
    /\ ringAge' = ringAge

RingDel(key) ==
    /\ RingCall([c |-> RingBuffer_Del(ring, key), ret |-> RingResult("Del", ZeroV, TRUE, << >>)],
                Without(ringOrder, key), MapDel(ringLast, key), FALSE)
    /\ ringAge' = MapDel(ringAge, key)

RingListAll ==
    /\ RingCall([c |-> ring, ret |-> RingResult("ListAll", ZeroV, TRUE, RingBuffer_ListAll(ring))],
                ringOrder, ringLast, ringPristine)
    /\ ringAge' = ringAge

\* The caller has taken the result.
RingReturn ==
    /\ RingOnly
    /\ ringRet # NoRingRet
    /\ ringRet' = NoRingRet
    /\ UNCHANGED <<ring, ringOrder, ringLast, ringPristine, ringAge>>

\* A RingBuffer made with one of sizes.
RingInit(sizes) ==
    /\ \E size \in sizes : ring = NewRingBuffer(size)
    /\ ringOrder = << >>
    /\ ringLast = EmptyMap
    /\ ringPristine = TRUE
    /\ ringAge = EmptyMap
    /\ ringRet = NoRingRet

RingNext ==
    \/ \E k \in RingKeys, v \in Vals : RingSet(k, v)
    \/ \E k \in RingKeys, v \in Vals : RingSetIfPresent(k, v)
    \/ \E k \in RingKeys, v \in Vals : RingSetIfAbsent(k, v)
    \/ \E k \in RingKeys : RingGet(k)
    \/ \E k \in RingKeys : RingDel(k)
    \/ RingListAll
    \/ RingReturn

(***************************************************************************)
(* Claims about RingBuffer                                                 *)
(***************************************************************************)
\* C8: after Set of N + k pairwise distinct keys into an empty ring of capacity
\* N, Get returns the set value for exactly the last N keys and ErrNotFound for
\* the first k.
C8_LastNRetrievable ==
    ringPristine =>
        LET n == Len(ringOrder)
            N == Len(ring.data)
        IN  \A i \in 1..n :
                RingBuffer_Get(ring, ringOrder[i]) =
                    IF i > n - N THEN <<ringLast[ringOrder[i]], Nil>>
                    ELSE <<ZeroV, ErrNotFound>>

\* More distinct keys than the ring has slots were set, the ring has more than
\* one slot, and a Get of one of the first keys has just reported ErrNotFound.
C8_Witness ==
    /\ ringPristine
    /\ Len(ring.data) > 1
    /\ Len(ringOrder) > Len(ring.data)
    /\ ringRet.op = "Get"
    /\ ~ringRet.ok

\* The keys written, not deleted since and still in the index, by their latest
\* slot-consuming write, each with the value of its latest write.
RingLive ==
    LET keys == SelectSeq(ringOrder, LAMBDA k : k \in DOMAIN ring.index)
    IN  [i \in 1..Len(keys) |-> <<keys[i], ringLast[keys[i]]>>]

\* C9: after any sequence of Set, SetIfPresent, SetIfAbsent and Del, ListAll
\* returns exactly the keys inserted and neither deleted nor overwritten since,
\* each once, with its current value, from the oldest insertion to the newest;
\* ListAllKeys, ListAllValues and All yield the same sequence.
C9_ListAllIsLiveInOrder ==
    LET all == RingBuffer_ListAll(ring) IN
    /\ all = RingLive
    /\ RingBuffer_All(ring) = all
    /\ RingBuffer_ListAllKeys(ring) = [i \in 1..Len(all) |-> all[i][1]]
    /\ RingBuffer_ListAllValues(ring) = [i \in 1..Len(all) |-> all[i][2]]

\* The slots that are not empty.
NonEmptySlots(c) == {i \in 1..Len(c.data) : ~c.data[i].empty}

\* C25: after any sequence of Set, SetIfPresent, SetIfAbsent and Del (keys may
\* be set more than once), the number of entries in the index equals the number
\* of non-empty slots.
C25_IndexCountsNonEmptySlots ==
    Cardinality(DOMAIN ring.index) = Cardinality(NonEmptySlots(ring))

\* C34: in a buffer of capacity N, with keys possibly written more than once,
\* every key written by one of the N most recent slot-consuming writes (Set, or
\* SetIfAbsent that inserted) and not deleted since is returned by Get with the
\* value of its latest write: writing the same key again never makes its newest
\* copy disappear before N further slot-consuming writes have happened.
C34_RecentWritesRetrievable ==
    \A k \in DOMAIN ringAge :
        ringAge[k] < Len(ring.data) => RingBuffer_Get(ring, k) = <<ringLast[k], Nil>>

\* C39: after any sequence of Set, SetIfPresent, SetIfAbsent and Del, every
\* index entry k -> i points to a slot i in [0, capacity) that is non-empty and
\* stores key k, and two different keys never point to the same slot; hence
\* Len() never exceeds the capacity.
C39_IndexPointsAtOwnSlot ==
    /\ \A k \in DOMAIN ring.index :
           /\ ring.index[k] \in 0..(Len(ring.data) - 1)
           /\ ~ring.data[ring.index[k] + 1].empty
           /\ ring.data[ring.index[k] + 1].K = k
    /\ \A j, k \in DOMAIN ring.index : ring.index[j] = ring.index[k] => j = k
    /\ RingBuffer_Len(ring) <= Len(ring.data)

\* C39's case: a full buffer of two slots in which a key was set again and a
\* slot was emptied by Del and written again: both slots are non-empty, the
\* index has two entries, and the write at the cursor is about to evict.
C39_Witness ==
    /\ Len(ring.data) = MaxRingSize
    /\ RingBuffer_Len(ring) = MaxRingSize
    /\ ~ringPristine
    /\ ringRet.op = "SetIfAbsent" /\ ringRet.ok
    /\ \E k \in DOMAIN ring.index : ring.index[k] = ring.head

\* C26: SetIfPresent never advances the cursor, never changes the index or any
\* slot's empty flag, and never evicts: for a present key it replaces only that
\* slot's value and returns (previous value, true); for an absent key it changes
\* nothing and returns (zero value, false).
C26_SetIfPresentInPlace ==
    [][\A k \in RingKeys, v \in Vals : RingSetIfPresent(k, v) =>
        /\ ring'.head = ring.head
        /\ ring'.index = ring.index
        /\ Len(ring'.data) = Len(ring.data)
        /\ \A i \in 1..Len(ring.data) :
               /\ ring'.data[i].empty = ring.data[i].empty
               /\ ring'.data[i].K = ring.data[i].K
        /\ \A j \in RingKeys : j # k => RingBuffer_Get(ring', j) = RingBuffer_Get(ring, j)
        /\ IF k \in DOMAIN ring.index
           THEN /\ \A i \in 1..Len(ring.data) :
                       ring'.data[i].V = IF i = ring.index[k] + 1 THEN v ELSE ring.data[i].V
                /\ ringRet' = RingResult("SetIfPresent", RingBuffer_Get(ring, k)[1], TRUE, << >>)
                /\ RingBuffer_Get(ring', k) = <<v, Nil>>
           ELSE /\ ring' = ring
                /\ ringRet' = RingResult("SetIfPresent", ZeroV, FALSE, << >>)]_vars

\* C26's case: a full ring of two keys, the older of which SetIfPresent has
\* just given another value; the next write goes to this key's slot.
C26_Witness ==
    /\ ringRet.op = "SetIfPresent" /\ ringRet.ok
    /\ Len(ring.data) = MaxRingSize
    /\ Cardinality(DOMAIN ring.index) = MaxRingSize
    /\ \E k \in DOMAIN ring.index :
           /\ ring.index[k] = ring.head
           /\ ring.data[ring.head + 1].V # ringRet.val
           /\ ringLast[k] = ring.data[ring.head + 1].V

(***************************************************************************)
(* KVCache (kv_cache.go).  A key is a sequence of bytes; slices are        *)
(* numbered from 0 as in the code, so element i of a slice s is s[i + 1].  *)
(* A *trieCacheNode the code walks with is the node's place in the trie:   *)
(* an operator that descends returns the node as the code leaves it, and   *)
(* its caller puts it back in its parent's children.                       *)
(***************************************************************************)
Bytes == 1..MaxByte
KVKeys == UNION {[1..n -> Bytes] : n \in 0..MaxKeyLen}

trieCacheNode(b, terminal, children, valueIndex) ==
    [b |-> b, terminal |-> terminal, children |-> children, valueIndex |-> valueIndex]

\* NewKVCache
NewKVCache == [values |-> << >>, freelist |-> << >>, trie |-> trieCacheNode(<< >>, FALSE, << >>, 0)]

\* s[from:]
SliceFrom(s, from) == SubSeq(s, from + 1, Len(s))

RECURSIVE commonPrefixLen_loop(_, _, _)
commonPrefixLen_loop(a, b, i) ==
    IF i < Len(a) /\ i < Len(b)
    THEN IF a[i + 1] # b[i + 1] THEN i ELSE commonPrefixLen_loop(a, b, i + 1)
    ELSE i

commonPrefixLen(a, b) == commonPrefixLen_loop(a, b, 0)

\* sort.Search over children with the predicate children[h].b[0] >= c.
RECURSIVE sort_Search(_, _, _, _)
sort_Search(children, c, i, j) ==
    IF i < j
    THEN LET h == (i + j) \div 2 IN
         IF ~(children[h + 1].b[1] >= c)
         THEN sort_Search(children, c, h + 1, j)
         ELSE sort_Search(children, c, i, h)
    ELSE i

\* <<idx, found>>
findChild(n, c) ==
    LET idx == sort_Search(n.children, c, 0, Len(n.children)) IN
    <<idx, idx < Len(n.children) /\ n.children[idx + 1].b[1] = c>>

addChildAt(n, child, idx) ==
    [n EXCEPT !.children = SubSeq(@, 1, idx) \o <<child>> \o SubSeq(@, idx + 1, Len(@))]

addChild(n, child) == addChildAt(n, child, findChild(n, child.b[1])[1])

\* get: <<value, found>>
RECURSIVE KVCache_get_loop(_, _, _)
KVCache_get_loop(kv, node, keyBytes) ==
    IF Len(keyBytes) > 0
    THEN LET f == findChild(node, keyBytes[1]) IN
         IF ~f[2] THEN <<ZeroV, FALSE>>
         ELSE LET child == node.children[f[1] + 1]
                  common == commonPrefixLen(child.b, keyBytes)
              IN  IF common # Len(child.b) THEN <<ZeroV, FALSE>>
                  ELSE KVCache_get_loop(kv, child, SliceFrom(keyBytes, common))
    ELSE IF node.terminal THEN <<kv.values[node.valueIndex + 1], TRUE>>
         ELSE <<ZeroV, FALSE>>

KVCache_get(kv, key) == KVCache_get_loop(kv, kv.trie, key)

\* addValue that always appends to values.
KVCache_addValue_append(kv, value) ==
    [kv |-> [kv EXCEPT !.values = Append(@, value)], idx |-> Len(kv.values)]

\* addValue: [kv |-> the cache with the value stored, idx |-> its index]
KVCache_addValue(kv, value) ==
    IF Len(kv.freelist) > 0
    THEN LET idx == kv.freelist[Len(kv.freelist)] IN
         [kv |-> [kv EXCEPT !.freelist = SubSeq(@, 1, Len(@) - 1), !.values[idx + 1] = value],
          idx |-> idx]
    ELSE [kv |-> [kv EXCEPT !.values = Append(@, value)], idx |-> Len(kv.values)]

\* insert, lines 303-308 and 340-345: the key ends at node.
\* [kv |-> the cache's values and freelist afterwards, node |-> the node afterwards]
KVCache_insert_here(kv, node, value) ==
    IF ~node.terminal
    THEN LET a == KVCache_addValue(kv, value) IN
         [kv |-> a.kv, node |-> [node EXCEPT !.valueIndex = a.idx, !.terminal = TRUE]]
    ELSE [kv |-> [kv EXCEPT !.values[node.valueIndex + 1] = value], node |-> node]

\* insert, lines 351-382: child becomes the branch over the rest of itself and
\* the rest of the key.
KVCache_insert_split(kv, child, keyBytes, common, value) ==
    LET origSuffix == SliceFrom(child.b, common)
        newSuffix == SliceFrom(keyBytes, common)
        restNode == trieCacheNode(origSuffix, child.terminal, child.children, child.valueIndex)
        branch == addChild([child EXCEPT !.b = SubSeq(@, 1, common), !.children = << >>,
                                         !.terminal = FALSE], restNode)
        a == KVCache_addValue(kv, value)
    IN  IF Len(newSuffix) = 0
        THEN [kv |-> a.kv, node |-> [branch EXCEPT !.terminal = TRUE, !.valueIndex = a.idx]]
        ELSE [kv |-> a.kv,
              node |-> addChild(branch, trieCacheNode(newSuffix, TRUE, << >>, a.idx))]

\* insert, the loop of lines 312-383 from node on, keyBytes not empty.
RECURSIVE KVCache_insert_loop(_, _, _, _)
KVCache_insert_loop(kv, node, keyBytes, value) ==
    LET f == findChild(node, keyBytes[1]) IN
    IF ~f[2]
    THEN LET a == KVCache_addValue(kv, value) IN
         [kv |-> a.kv,
          node |-> addChildAt(node, trieCacheNode(keyBytes, TRUE, << >>, a.idx), f[1])]
    ELSE LET child == node.children[f[1] + 1]
             common == commonPrefixLen(child.b, keyBytes)
             r == IF common = Len(child.b)
                  THEN IF Len(SliceFrom(keyBytes, common)) = 0
                       THEN KVCache_insert_here(kv, child, value)
                       ELSE KVCache_insert_loop(kv, child, SliceFrom(keyBytes, common), value)
                  ELSE KVCache_insert_split(kv, child, keyBytes, common, value)
         IN  [kv |-> r.kv, node |-> [node EXCEPT !.children[f[1] + 1] = r.node]]

\* insert
KVCache_insert(kv, key, value) ==
    LET r == IF Len(key) = 0
             THEN KVCache_insert_here(kv, kv.trie, value)
             ELSE KVCache_insert_loop(kv, kv.trie, key, value)
    IN  [r.kv EXCEPT !.trie = r.node]

\* deleteValueAtIndex
KVCache_deleteValueAtIndex(kv, idx) ==
    [kv EXCEPT !.values[idx + 1] = ZeroV, !.freelist = Append(@, idx)]

\* A cleanup that removes childless nodes and never merges a node with its
\* only child.
KVCache_delete_cleanup_nomerge(parent, childIdx) ==
    LET node == parent.children[childIdx + 1] IN
    IF Len(node.children) = 0 /\ ~node.terminal
    THEN [node |-> [parent EXCEPT !.children = SubSeq(@, 1, childIdx)
                                                  \o SubSeq(@, childIdx + 2, Len(@))],
          cleanup |-> TRUE]
    ELSE [node |-> parent, cleanup |-> FALSE]

\* delete, phase 2, one round of the loop of lines 432-455 for the path entry
\* (parent.children[childIdx], parent); cleanup tells whether the loop goes on.
KVCache_delete_cleanup(parent, childIdx) ==
    LET node == parent.children[childIdx + 1] IN
    IF Len(node.children) = 0 /\ ~node.terminal
    THEN [node |-> [parent EXCEPT !.children = SubSeq(@, 1, childIdx)
                                                  \o SubSeq(@, childIdx + 2, Len(@))],
          cleanup |-> TRUE]
    ELSE IF Len(node.children) = 1 /\ ~node.terminal
    THEN LET child == node.children[1] IN
         [node |-> [parent EXCEPT !.children[childIdx + 1] =
                        trieCacheNode(node.b \o child.b, child.terminal, child.children,
                                      child.valueIndex)],
          cleanup |-> TRUE]
    ELSE [node |-> parent, cleanup |-> FALSE]

\* delete, phase 1 from node on with keyPart left, then phase 2 on the way back.
\* [node |-> the node afterwards, freed |-> the value indices released,
\*  cleanup |-> the cleanup loop reached this node's path entry]
RECURSIVE KVCache_delete_loop(_, _)
KVCache_delete_loop(node, keyPart) ==
    IF Len(keyPart) = 0
    THEN IF node.terminal
         THEN [node |-> [node EXCEPT !.terminal = FALSE], freed |-> <<node.valueIndex>>,
               cleanup |-> TRUE]
         ELSE [node |-> node, freed |-> << >>, cleanup |-> FALSE]
    ELSE LET f == findChild(node, keyPart[1]) IN
         IF ~f[2] THEN [node |-> node, freed |-> << >>, cleanup |-> FALSE]
         ELSE LET child == node.children[f[1] + 1]
                  common == commonPrefixLen(child.b, keyPart)
              IN  IF common # Len(child.b)
                  THEN [node |-> node, freed |-> << >>, cleanup |-> FALSE]
                  ELSE LET r == KVCache_delete_loop(child, SliceFrom(keyPart, common))
                           put == [node EXCEPT !.children[f[1] + 1] = r.node]
                       IN  IF r.cleanup
                           THEN LET c == KVCache_delete_cleanup(put, f[1]) IN
                                [node |-> c.node, freed |-> r.freed, cleanup |-> c.cleanup]
                           ELSE [node |-> put, freed |-> r.freed, cleanup |-> FALSE]

\* delete: the root has no path entry.
KVCache_delete(kv, key) ==
    LET r == KVCache_delete_loop(kv.trie, key)
        trie == [kv EXCEPT !.trie = r.node]
    IN  IF r.freed = << >> THEN trie ELSE KVCache_deleteValueAtIndex(trie, r.freed[1])

\* dfs, the loop of lines 521-541: stack holds the nodes to visit, top last.
RECURSIVE KVCache_dfs_loop(_, _, _)
KVCache_dfs_loop(kv, stack, res) ==
    IF Len(stack) > 0
    THEN LET top == stack[Len(stack)]
             n == Len(top.children)
             res1 == IF top.terminal THEN Append(res, kv.values[top.valueIndex + 1]) ELSE res
         IN  KVCache_dfs_loop(kv,
                 SubSeq(stack, 1, Len(stack) - 1) \o [i \in 1..n |-> top.children[n + 1 - i]],
                 res1)
    ELSE res

\* dfs
KVCache_dfs(kv, node) ==
    LET res == IF node.terminal THEN <<kv.values[node.valueIndex + 1]>> ELSE << >>
        n == Len(node.children)
    IN  IF n = 0 THEN res
        ELSE KVCache_dfs_loop(kv, [i \in 1..n |-> node.children[n + 1 - i]], res)

\* ListByPrefix without the case of a prefix that ends inside a node's segment.
RECURSIVE KVCache_ListByPrefix_whole(_, _, _)
KVCache_ListByPrefix_whole(kv, node, searchKey) ==
    IF Len(searchKey) > 0
    THEN LET f == findChild(node, searchKey[1]) IN
         IF ~f[2] THEN << >>
         ELSE LET child == node.children[f[1] + 1]
                  common == commonPrefixLen(child.b, searchKey)
              IN  IF common < Len(child.b) THEN << >>
                  ELSE KVCache_ListByPrefix_whole(kv, child, SliceFrom(searchKey, common))
    ELSE KVCache_dfs(kv, node)

\* ListByPrefix, the loop of lines 113-140 from node on.
RECURSIVE KVCache_ListByPrefix_loop(_, _, _)
KVCache_ListByPrefix_loop(kv, node, searchKey) ==
    IF Len(searchKey) > 0
    THEN LET f == findChild(node, searchKey[1]) IN
         IF ~f[2] THEN << >>
         ELSE LET child == node.children[f[1] + 1]
                  common == commonPrefixLen(child.b, searchKey)
              IN  IF common < Len(searchKey)
                  THEN IF common < Len(child.b) THEN << >>
                       ELSE KVCache_ListByPrefix_loop(kv, child, SliceFrom(searchKey, common))
                  ELSE KVCache_dfs(kv, child)
    ELSE KVCache_dfs(kv, kv.trie)

KVCache_ListByPrefix(kv, prefix) == KVCache_ListByPrefix_loop(kv, kv.trie, prefix)

\* The stack entries of the children of node, the last child first, as the loops
\* of lines 199-204 and 221-226 push them.
KVCache_AllByPrefix_push(node, pathLength) ==
    LET n == Len(node.children)
    IN  [i \in 1..n |-> [node |-> node.children[n + 1 - i], pathLength |-> pathLength]]

\* The loop of AllByPrefix appending to path without cutting it back first.
RECURSIVE KVCache_AllByPrefix_loop_nocut(_, _, _, _)
KVCache_AllByPrefix_loop_nocut(kv, stack, path, res) ==
    IF Len(stack) > 0
    THEN LET top == stack[Len(stack)]
             path1 == path \o top.node.b
             res1 == IF top.node.terminal
                     THEN Append(res, <<path1, kv.values[top.node.valueIndex + 1]>>)
                     ELSE res
         IN  KVCache_AllByPrefix_loop_nocut(kv,
                 SubSeq(stack, 1, Len(stack) - 1) \o KVCache_AllByPrefix_push(top.node, Len(path1)),
                 path1, res1)
    ELSE res

\* AllByPrefix, the loop of lines 207-227: the pairs yielded to a loop body that
\* never breaks.  path[:n] of the slice path is SubSeq(path, 1, n).
RECURSIVE KVCache_AllByPrefix_loop(_, _, _, _)
KVCache_AllByPrefix_loop(kv, stack, path, res) ==
    IF Len(stack) > 0
    THEN LET top == stack[Len(stack)]
             path1 == SubSeq(path, 1, top.pathLength) \o top.node.b
             res1 == IF top.node.terminal
                     THEN Append(res, <<path1, kv.values[top.node.valueIndex + 1]>>)
                     ELSE res
         IN  KVCache_AllByPrefix_loop(kv,
                 SubSeq(stack, 1, Len(stack) - 1) \o KVCache_AllByPrefix_push(top.node, Len(path1)),
                 path1, res1)
    ELSE res

\* AllByPrefix from the label start_dfs on.
KVCache_AllByPrefix_dfs(kv, node, path) ==
    LET res == IF node.terminal THEN <<<<path, kv.values[node.valueIndex + 1]>>>> ELSE << >>
    IN  KVCache_AllByPrefix_loop(kv, KVCache_AllByPrefix_push(node, Len(path)), path, res)

\* AllByPrefix, the search of lines 159-185 from node on.
RECURSIVE KVCache_AllByPrefix_search(_, _, _, _)
KVCache_AllByPrefix_search(kv, node, searchKey, pathPrefix) ==
    IF Len(searchKey) > 0
    THEN LET f == findChild(node, searchKey[1]) IN
         IF ~f[2] THEN << >>
         ELSE LET child == node.children[f[1] + 1]
                  common == commonPrefixLen(child.b, searchKey)
              IN  IF common < Len(searchKey)
                  THEN IF common < Len(child.b) THEN << >>
                       ELSE KVCache_AllByPrefix_search(kv, child, SliceFrom(searchKey, common),
                                                       pathPrefix \o child.b)
                  ELSE KVCache_AllByPrefix_dfs(kv, child, pathPrefix \o child.b)
    ELSE KVCache_AllByPrefix_dfs(kv, node, pathPrefix)

\* AllByPrefix: the sequence of <<key, value>> the iterator yields.
KVCache_AllByPrefix(kv, prefix) ==
    IF Len(prefix) > 0
    THEN KVCache_AllByPrefix_search(kv, kv.trie, prefix, << >>)
    ELSE KVCache_AllByPrefix_dfs(kv, kv.trie, << >>)

KVCache_Len(kv) ==
    IF Len(kv.values) - Len(kv.freelist) > 0 THEN Len(kv.values) - Len(kv.freelist) ELSE 0

KVResult(op, val, ok, list) == [op |-> op, val |-> val, ok |-> ok, list |-> list]
NoKVRet == KVResult("none", ZeroV, FALSE, << >>)

\* The public operations: [kv |-> the cache afterwards, ret |-> what the call returned].
KVCache_Set(kv, key, value) ==
    [kv |-> KVCache_insert(kv, key, value), ret |-> KVResult("Set", ZeroV, TRUE, << >>)]

KVCache_SetIfPresent(kv, key, value) ==
    LET g == KVCache_get(kv, key) IN
    IF g[2]
    THEN [kv |-> KVCache_insert(kv, key, value), ret |-> KVResult("SetIfPresent", g[1], TRUE, << >>)]
    ELSE [kv |-> kv, ret |-> KVResult("SetIfPresent", ZeroV, FALSE, << >>)]

KVCache_SetIfAbsent(kv, key, value) ==
    LET g == KVCache_get(kv, key) IN
    IF g[2]
    THEN [kv |-> kv, ret |-> KVResult("SetIfAbsent", g[1], FALSE, << >>)]
    ELSE [kv |-> KVCache_insert(kv, key, value), ret |-> KVResult("SetIfAbsent", ZeroV, TRUE, << >>)]

KVCache_Get(kv, key) ==
    LET g == KVCache_get(kv, key) IN
    [kv |-> kv, ret |-> KVResult("Get", IF g[2] THEN g[1] ELSE ZeroV, g[2], << >>)]

KVCache_Del(kv, key) ==
    [kv |-> KVCache_delete(kv, key), ret |-> KVResult("Del", ZeroV, TRUE, << >>)]

KVCall(r, ref) ==
    /\ KVOnly
    /\ kvRet = NoKVRet
    /\ kvc' = r.kv
    /\ kvRet' = IF r.ret.op \in {"ListByPrefix", "AllByPrefix"} THEN r.ret ELSE NoKVRet
    /\ kvRef' = ref

\* The clients hold at most MaxKVLen keys in the cache.
Room(key) == key \in DOMAIN kvRef \/ Cardinality(DOMAIN kvRef) < MaxKVLen

KVSet(key, value) ==
    /\ Room(key)
    /\ KVCall(KVCache_Set(kvc, key, value), MapPut(kvRef, key, value))

KVSetIfPresent(key, value) ==
    KVCall(KVCache_SetIfPresent(kvc, key, value),
           IF key \in DOMAIN kvRef THEN MapPut(kvRef, key, value) ELSE kvRef)

KVSetIfAbsent(key, value) ==
    /\ Room(key)
    /\ KVCall(KVCache_SetIfAbsent(kvc, key, value),
              IF key \in DOMAIN kvRef THEN kvRef ELSE MapPut(kvRef, key, value))

KVDel(key) == KVCall(KVCache_Del(kvc, key), MapDel(kvRef, key))

KVListByPrefix(prefix) ==
    KVCall([kv |-> kvc,
            ret |-> KVResult("ListByPrefix", ZeroV, TRUE, KVCache_ListByPrefix(kvc, prefix))],
           kvRef)

\* for k, v := range kv.AllByPrefix(prefix), with a body that takes every pair
KVAllByPrefix(prefix) ==
    KVCall([kv |-> kvc,
            ret |-> KVResult("AllByPrefix", ZeroV, TRUE, KVCache_AllByPrefix(kvc, prefix))],
           kvRef)

\* The caller has taken the result.
KVReturn ==
    /\ KVOnly
    /\ kvRet # NoKVRet
    /\ kvRet' = NoKVRet
    /\ UNCHANGED <<kvc, kvRef>>

KVInit ==
    /\ kvc = NewKVCache
    /\ kvRef = EmptyMap
    /\ kvRet = NoKVRet

KVNext ==
    \/ \E k \in KVKeys, v \in Vals : KVSet(k, v)
    \/ \E k \in KVKeys, v \in Vals : KVSetIfPresent(k, v)
    \/ \E k \in KVKeys, v \in Vals : KVSetIfAbsent(k, v)
    \/ \E k \in KVKeys : KVDel(k)
    \/ \E p \in KVKeys : KVListByPrefix(p)
    \/ \E p \in KVKeys : KVAllByPrefix(p)
    \/ KVReturn

(***************************************************************************)
(* KVCache under concurrent calls.  kv.mux is a sync.RWMutex: Lock         *)
(* announces the writer, after which RLock blocks, and then waits until    *)
(* the readers that hold the mutex have left; a second writer waits for    *)
(* the first at the mutex's inner lock.  The goroutines of Snapshotters    *)
(* call Snapshot, which takes the read lock and, holding it, runs the      *)
(* iterator of AllByPrefix(""), which takes the read lock again; the       *)
(* goroutines of KVWriters call Set and Del.                               *)
(***************************************************************************)
Snapshotters == 1..NumSnapshotters
KVWriters == 1..NumKVWriters
SnapKeys == {<<b>> : b \in 1..MaxSnapByte}
NoWriter == 0

SnapOnly == UNCHANGED <<ttlVars, updVars, ringVars, kvwVars, lockVars, stxVars, shardVars>>

\* sync.RWMutex as Go implements it: r, the readers holding it; w, the writer
\* holding it; pending, the writer that has called Lock and waits for the readers.
RWMutexGo == [r |-> 0, w |-> NoWriter, pending |-> NoWriter]
\* RLock blocks while a writer holds the mutex or has called Lock.
RWMutexGo_RLockWaits(m) == m.w # NoWriter \/ m.pending # NoWriter
RWMutexGo_RLock(m) == [m EXCEPT !.r = @ + 1]
RWMutexGo_RUnlock(m) == [m EXCEPT !.r = @ - 1]
\* Lock waits at the inner lock while another writer holds the mutex or has called Lock.
RWMutexGo_LockQueues(m) == m.w # NoWriter \/ m.pending # NoWriter
RWMutexGo_LockAnnounce(m, w) == [m EXCEPT !.pending = w]
\* The announced writer waits while readers hold the mutex.
RWMutexGo_LockWaits(m) == m.r > 0
RWMutexGo_LockAcquire(m) == [m EXCEPT !.w = m.pending, !.pending = NoWriter]
RWMutexGo_Unlock(m) == [m EXCEPT !.w = NoWriter]

SnapIdle == [pc |-> "idle", res |-> EmptyMap]

\* The map a loop body res[k] = v leaves after the pairs of the sequence all.
MapOfPairs(all) ==
    [k \in {all[i][1] : i \in DOMAIN all} |->
        all[CHOOSE i \in DOMAIN all : all[i][1] = k /\ \A j \in DOMAIN all : all[j][1] = k => j <= i][2]]
WriterIdle == [pc |-> "idle", op |-> "none", key |-> << >>, value |-> ZeroV]

\* Snapshot, line 237: kv.mux.RLock()
SnapshotRLock(g) ==
    /\ SnapOnly
    /\ snapshotters[g].pc = "idle"
    /\ ~RWMutexGo_RLockWaits(kvmux)
    /\ kvmux' = RWMutexGo_RLock(kvmux)
    /\ snapshotters' = [snapshotters EXCEPT ![g].pc = "snapshot"]
    /\ UNCHANGED <<kvVars, kvWriters>>

\* Snapshot, line 243, into AllByPrefix, line 149: kv.mux.RLock() of the iterator
SnapshotIterRLock(g) ==
    /\ SnapOnly
    /\ snapshotters[g].pc = "snapshot"
    /\ ~RWMutexGo_RLockWaits(kvmux)
    /\ kvmux' = RWMutexGo_RLock(kvmux)
    /\ snapshotters' = [snapshotters EXCEPT ![g].pc = "iterator"]
    /\ UNCHANGED <<kvVars, kvWriters>>

\* The iterator runs, res[k] = v for every pair, and releases its read lock.
SnapshotIterate(g) ==
    /\ SnapOnly
    /\ snapshotters[g].pc = "iterator"
    /\ snapshotters' = [snapshotters EXCEPT ![g] =
           [pc |-> "copied", res |-> MapOfPairs(KVCache_AllByPrefix(kvc, << >>))]]
    /\ kvmux' = RWMutexGo_RUnlock(kvmux)
    /\ UNCHANGED <<kvVars, kvWriters>>

\* Snapshot returns res; its deferred kv.mux.RUnlock() runs.
SnapshotReturn(g) ==
    /\ SnapOnly
    /\ snapshotters[g].pc = "copied"
    /\ kvmux' = RWMutexGo_RUnlock(kvmux)
    /\ snapshotters' = [snapshotters EXCEPT ![g].pc = "idle"]
    /\ UNCHANGED <<kvVars, kvWriters>>

\* Set or Del, kv.mux.Lock(): the writer is announced.
WriterLock(w, op, key, value) ==
    /\ SnapOnly
    /\ kvWriters[w].pc = "idle"
    /\ ~RWMutexGo_LockQueues(kvmux)
    /\ kvmux' = RWMutexGo_LockAnnounce(kvmux, w)
    /\ kvWriters' = [kvWriters EXCEPT ![w] = [pc |-> "lock", op |-> op, key |-> key, value |-> value]]
    /\ UNCHANGED <<kvVars, snapshotters>>

\* kv.mux.Lock() returns once the readers have left.
WriterAcquire(w) ==
    /\ SnapOnly
    /\ kvWriters[w].pc = "lock"
    /\ kvmux.pending = w
    /\ ~RWMutexGo_LockWaits(kvmux)
    /\ kvmux' = RWMutexGo_LockAcquire(kvmux)
    /\ kvWriters' = [kvWriters EXCEPT ![w].pc = "locked"]
    /\ UNCHANGED <<kvVars, snapshotters>>

\* kv.insert or kv.delete under the lock, and the deferred kv.mux.Unlock()
WriterWrite(w) ==
    /\ SnapOnly
    /\ kvWriters[w].pc = "locked"
    /\ LET c == kvWriters[w] IN
       IF c.op = "Set"
       THEN /\ kvc' = KVCache_Set(kvc, c.key, c.value).kv
            /\ kvRef' = MapPut(kvRef, c.key, c.value)
       ELSE /\ kvc' = KVCache_Del(kvc, c.key).kv
            /\ kvRef' = MapDel(kvRef, c.key)
    /\ kvmux' = RWMutexGo_Unlock(kvmux)
    /\ kvWriters' = [kvWriters EXCEPT ![w] = WriterIdle]
    /\ UNCHANGED <<kvRet, snapshotters>>

SnapInit ==
    /\ kvmux = RWMutexGo
    /\ snapshotters = [g \in Snapshotters |-> SnapIdle]
    /\ kvWriters = [w \in KVWriters |-> WriterIdle]

SnapNext ==
    \/ \E g \in Snapshotters : SnapshotRLock(g)
    \/ \E g \in Snapshotters : SnapshotIterRLock(g)
    \/ \E g \in Snapshotters : SnapshotIterate(g)
    \/ \E g \in Snapshotters : SnapshotReturn(g)
    \/ \E w \in KVWriters, op \in {"Set", "Del"}, k \in SnapKeys : WriterLock(w, op, k, 1)
    \/ \E w \in KVWriters : WriterAcquire(w)
    \/ \E w \in KVWriters : WriterWrite(w)

(***************************************************************************)
(* Claims about KVCache                                                    *)
(***************************************************************************)
\* p is a prefix of k.
HasPrefix(k, p) == Len(p) <= Len(k) /\ SubSeq(k, 1, Len(p)) = p

\* a = b, or a comes before b in byte-wise order (a key before every longer
\* key it is a prefix of).
BytesLeq(a, b) ==
    LET c == commonPrefixLen(a, b) IN
    IF c = Len(a) THEN TRUE
    ELSE IF c = Len(b) THEN FALSE
    ELSE a[c + 1] < b[c + 1]

\* The keys of S in ascending byte-wise order.
RECURSIVE Ascending(_)
Ascending(S) ==
    IF S = {} THEN << >>
    ELSE LET least == CHOOSE k \in S : \A x \in S : BytesLeq(k, x)
         IN  <<least>> \o Ascending(S \ {least})

\* The values the clients' writes left under the keys that start with p, by key.
Listing(p) ==
    LET keys == Ascending({k \in DOMAIN kvRef : HasPrefix(k, p)})
    IN  [i \in 1..Len(keys) |-> kvRef[keys[i]]]

\* C10: after any sequence of Set, SetIfPresent, SetIfAbsent and Del over
\* byte-string keys, the empty key included, ListByPrefix(p) returns for every
\* prefix p exactly the current values of the keys present that start with p,
\* each once, in ascending byte-wise key order.
C10_ListByPrefixIsSortedListing ==
    \A p \in KVKeys : KVCache_ListByPrefix(kvc, p) = Listing(p)

\* A listing of two values, the empty key's among them, came back after a
\* deletion left a freed slot in the arena, from a trie with a node of two bytes.
C10_Witness ==
    /\ kvRet.op = "ListByPrefix"
    /\ Len(kvRet.list) = 2
    /\ Len(kvc.freelist) > 0
    /\ << >> \in DOMAIN kvRef
    /\ \E n \in DOMAIN kvc.trie.children : Len(kvc.trie.children[n].b) > 1

\* C36: Snapshot always returns when it runs concurrently with Set or Del calls
\* of other goroutines on the same cache: under a reader-writer lock where a
\* waiting writer blocks new readers, no interleaving leaves Snapshot and a
\* writer waiting for each other forever, that is, a Snapshot that holds the read
\* lock never waits for a writer that waits for the readers to leave.
C36_SnapshotAndWriterNeverWaitForEachOther ==
    \A g \in Snapshotters :
        snapshotters[g].pc = "snapshot" =>
            ~(RWMutexGo_RLockWaits(kvmux) /\ kvmux.pending # NoWriter /\ RWMutexGo_LockWaits(kvmux))

\* The same as a statement about steps: whenever a call of Snapshot, Set or Del
\* is in progress, one of the calls in progress can take its next step.
SnapshotSomeCallProceeds ==
    (\/ \E g \in Snapshotters : snapshotters[g].pc # "idle"
     \/ \E w \in KVWriters : kvWriters[w].pc # "idle") =>
        \/ \E g \in Snapshotters :
               ENABLED SnapshotIterRLock(g) \/ ENABLED SnapshotIterate(g) \/ ENABLED SnapshotReturn(g)
        \/ \E w \in KVWriters : ENABLED WriterAcquire(w) \/ ENABLED WriterWrite(w)

\* C40: for every trie state reachable by Set and Del and every prefix p,
\* AllByPrefix(p) yields the same values in the same order as ListByPrefix(p),
\* and the key it yields with each value is exactly the key under which that
\* value was stored.
C40_AllByPrefixAgreesWithListByPrefix ==
    \A p \in KVKeys :
        LET all == KVCache_AllByPrefix(kvc, p)
            keys == Ascending({k \in DOMAIN kvRef : HasPrefix(k, p)})
        IN  /\ [i \in 1..Len(all) |-> all[i][2]] = KVCache_ListByPrefix(kvc, p)
            /\ [i \in 1..Len(all) |-> all[i][1]] = keys
            /\ \A i \in 1..Len(all) : all[i][2] = kvRef[all[i][1]]

\* C40's case: the iterator has yielded three pairs, the second under a key of
\* two bytes from a node below the first one's and the third under a key of one
\* byte, for which the path was cut back.
C40_Witness ==
    /\ kvRet.op = "AllByPrefix"
    /\ Len(kvRet.list) = 3
    /\ Len(kvRet.list[1][1]) = 1
    /\ Len(kvRet.list[2][1]) = 2
    /\ Len(kvRet.list[3][1]) = 1
    /\ kvRet.list[1][2] # kvRet.list[3][2]

\* The structural contract of a trie node and of everything under it: a node
\* other than the root has a non-empty segment, the first bytes of the segments
\* of a node's children strictly increase, and a node other than the root that
\* is not terminal has at least two children.
RECURSIVE TrieWellFormed(_, _)
TrieWellFormed(node, isRoot) ==
    /\ isRoot \/ Len(node.b) > 0
    /\ isRoot \/ node.terminal \/ Len(node.children) >= 2
    /\ \A i \in DOMAIN node.children : Len(node.children[i].b) > 0
    /\ \A i \in 1..(Len(node.children) - 1) :
           node.children[i].b[1] < node.children[i + 1].b[1]
    /\ \A i \in DOMAIN node.children : TrieWellFormed(node.children[i], FALSE)

\* C12: after any sequence of Set and Del the KVCache trie keeps its structural
\* contract: every non-root node has a non-empty segment, the first bytes of
\* the segments of any node's children are strictly increasing, and every
\* non-root non-terminal node has at least two children.
C12_KVCacheTrieWellFormed == TrieWellFormed(kvc.trie, TRUE)

\* Two values were stored and one of them deleted, and the one key left is a
\* single leaf of two bytes under the root, as Del of "aa" leaves it after
\* Set("aa") and Set("ab"), when the branch "a" is merged with its child "b".
C12_Witness ==
    /\ Len(kvc.values) = 2
    /\ Len(kvc.freelist) = 1
    /\ Len(kvc.trie.children) = 1
    /\ Len(kvc.trie.children[1].b) = 2
    /\ kvc.trie.children[1].terminal
    /\ kvc.trie.children[1].children = << >>

\* The valueIndex fields of the terminal nodes under (and including) node.
RECURSIVE TerminalSlots(_)
TerminalSlots(node) ==
    LET sub[i \in 0..Len(node.children)] ==
            IF i = 0 THEN << >> ELSE sub[i - 1] \o TerminalSlots(node.children[i])
    IN  (IF node.terminal THEN <<node.valueIndex>> ELSE << >>) \o sub[Len(node.children)]

\* The arena of kv and its trie agree.
ArenaAgrees(kv, ref) ==
    LET used == TerminalSlots(kv.trie)
        all == 0..(Len(kv.values) - 1)
    IN  /\ Cardinality(SeqElems(used)) = Len(used)
        /\ SeqElems(used) \subseteq all
        /\ SeqElems(used) \cap SeqElems(kv.freelist) = {}
        /\ SeqElems(kv.freelist) = all \ SeqElems(used)
        /\ Cardinality(SeqElems(kv.freelist)) = Len(kv.freelist)
        /\ KVCache_Len(kv) = Len(kv.values) - Len(kv.freelist)
        /\ KVCache_Len(kv) = Cardinality(DOMAIN ref)
        /\ \A i \in SeqElems(kv.freelist) : kv.values[i + 1] = ZeroV

\* C28: after any sequence of Set, SetIfPresent, SetIfAbsent and Del the
\* valueIndex fields of the terminal nodes are pairwise distinct valid indices
\* into values, none of them is in the freelist, and the freelist holds exactly
\* the remaining indices without duplicates; hence Len() = len(values) -
\* len(freelist) equals the number of keys present, the slot of a deleted key
\* holds the zero value, and inserting a new key takes a slot from the freelist
\* whenever it is non-empty instead of growing values.
C28_ArenaAgreesWithTrie ==
    [][LET present == Cardinality(DOMAIN kvRef)
           free == Len(kvc.freelist)
       IN  /\ ArenaAgrees(kvc, kvRef) /\ ArenaAgrees(kvc', kvRef')
           \* a key was deleted
           /\ Cardinality(DOMAIN kvRef') < present =>
                   /\ Len(kvc'.values) = Len(kvc.values)
                   /\ Len(kvc'.freelist) = free + 1
                   /\ SubSeq(kvc'.freelist, 1, free) = kvc.freelist
                   /\ kvc'.values[kvc'.freelist[free + 1] + 1] = ZeroV
           \* a new key was inserted
           /\ Cardinality(DOMAIN kvRef') > present =>
                   IF free > 0
                   THEN /\ Len(kvc'.values) = Len(kvc.values)
                        /\ kvc'.freelist = SubSeq(kvc.freelist, 1, free - 1)
                        /\ kvc'.values[kvc.freelist[free] + 1] # ZeroV
                   ELSE /\ Len(kvc'.values) = Len(kvc.values) + 1
                        /\ kvc'.freelist = << >>]_vars

\* C28's case: of three slots the first two are free, freed in this order, and
\* the third is the slot of the one key present.
C28_Witness ==
    /\ Len(kvc.values) = MaxKVLen
    /\ kvc.freelist = <<0, 1>>
    /\ Cardinality(DOMAIN kvRef) = 1
    /\ TerminalSlots(kvc.trie) = <<2>>

(***************************************************************************)
(* KV (kv.go): the prefix index over any Geche[string, V]; here over a     *)
(* MapCache.  The trie holds the keys only, the values live in kv.data.    *)
(* As for KVCache, a *trieNode the code walks with is the node's place in  *)
(* the trie: an operator that descends returns the node as the code leaves *)
(* it.  findChild, addChild, addChildAt and commonPrefixLen of kv.go read  *)
(* as those of kv_cache.go above.                                          *)
(***************************************************************************)
trieNode(b, children, terminal) == [b |-> b, children |-> children, terminal |-> terminal]

\* NewKV(NewMapCache())
\* kv.data is a Geche[string, V]: kind is the type of the cache behind the
\* interface, a MapCache or the MockErrCache of the tests, which keeps nothing.
NewKV == [kind |-> "MapCache", data |-> NewMapCache, trie |-> trieNode(<< >>, << >>, FALSE)]

NewKVMock == [NewKV EXCEPT !.kind = "MockErrCache"]

\* NewKV(NewRingBuffer[string, V](size)); the zero value of a string key is "".
NewKVRing(size) ==
    [NewKV EXCEPT !.kind = "RingBuffer",
                  !.data = [NewRingBuffer(size) EXCEPT
                               !.data = [i \in 1..size |-> BufferRec(<< >>, ZeroV, TRUE)]]]

\* The key MockErrCache.Get fails for ("err"), and its error.
ErrKey == <<1, 1>>
ErrMock == "wow an error"

\* MockErrCache.Get: <<value, err>>
MockErrCache_Get(key) == IF key = ErrKey THEN <<ZeroV, ErrMock>> ELSE <<ZeroV, Nil>>

\* MapCache.SetIfPresent: [data, old, ok]
MapCache_SetIfPresent(data, key, value) ==
    IF key \in DOMAIN data
    THEN [data |-> MapPut(data, key, value), old |-> data[key], ok |-> TRUE]
    ELSE [data |-> data, old |-> ZeroV, ok |-> FALSE]

\* insert, lines 190-220: child becomes the branch over the rest of itself and
\* the rest of the key.
KV_insert_split(child, keyBytes, common) ==
    LET origSuffix == SliceFrom(child.b, common)
        newSuffix == SliceFrom(keyBytes, common)
        restNode == trieNode(origSuffix, child.children, child.terminal)
        branch == addChild([child EXCEPT !.b = SubSeq(@, 1, common), !.children = << >>,
                                         !.terminal = FALSE], restNode)
    IN  IF Len(newSuffix) = 0
        THEN [branch EXCEPT !.terminal = TRUE]
        ELSE addChild(branch, trieNode(newSuffix, << >>, TRUE))

\* insert, the loop of lines 154-221 from node on, keyBytes not empty: the node
\* afterwards.
RECURSIVE KV_insert_loop(_, _)
KV_insert_loop(node, keyBytes) ==
    LET f == findChild(node, keyBytes[1]) IN
    IF ~f[2]
    THEN addChildAt(node, trieNode(keyBytes, << >>, TRUE), f[1])
    ELSE LET child == node.children[f[1] + 1]
             common == commonPrefixLen(child.b, keyBytes)
             rest == SliceFrom(keyBytes, common)
             r == IF common = Len(child.b)
                  THEN IF Len(rest) = 0
                       THEN [child EXCEPT !.terminal = TRUE]
                       ELSE KV_insert_loop(child, rest)
                  ELSE KV_insert_split(child, keyBytes, common)
         IN  [node EXCEPT !.children[f[1] + 1] = r]

\* insert
KV_insert(kv, key) ==
    IF Len(key) = 0
    THEN [kv EXCEPT !.trie.terminal = TRUE]
    ELSE [kv EXCEPT !.trie = KV_insert_loop(@, key)]

\* del that never asks its caller to remove the node.
RECURSIVE KV_delete_del_keep(_, _)
KV_delete_del_keep(n, k) ==
    IF Len(k) = 0
    THEN [node |-> [n EXCEPT !.terminal = FALSE], remove |-> FALSE]
    ELSE LET f == findChild(n, k[1]) IN
         IF ~f[2] THEN [node |-> n, remove |-> FALSE]
         ELSE LET child == n.children[f[1] + 1]
                  common == commonPrefixLen(child.b, k)
              IN  IF common # Len(child.b) THEN [node |-> n, remove |-> FALSE]
                  ELSE [node |-> [n EXCEPT !.children[f[1] + 1] =
                                      KV_delete_del_keep(child, SliceFrom(k, common)).node],
                        remove |-> FALSE]

\* delete, the closure del of lines 228-265:
\* [node |-> n afterwards, remove |-> what del returns]
RECURSIVE KV_delete_del(_, _)
KV_delete_del(n, k) ==
    IF Len(k) = 0
    THEN IF n.terminal
         THEN [node |-> [n EXCEPT !.terminal = FALSE], remove |-> Len(n.children) = 0]
         ELSE [node |-> n, remove |-> FALSE]
    ELSE LET f == findChild(n, k[1]) IN
         IF ~f[2] THEN [node |-> n, remove |-> FALSE]
         ELSE LET child == n.children[f[1] + 1]
                  common == commonPrefixLen(child.b, k)
              IN  IF common # Len(child.b) THEN [node |-> n, remove |-> FALSE]
                  ELSE LET r == KV_delete_del(child, SliceFrom(k, common)) IN
                       IF r.remove
                       THEN LET cut == [n EXCEPT !.children = SubSeq(@, 1, f[1]) \o
                                                              SubSeq(@, f[1] + 2, Len(@))]
                            IN  [node |-> cut,
                                 remove |-> ~cut.terminal /\ Len(cut.children) = 0]
                       ELSE [node |-> [n EXCEPT !.children[f[1] + 1] = r.node],
                             remove |-> FALSE]

\* delete: the root is never removed.
KV_delete(kv, key) == [kv EXCEPT !.trie = KV_delete_del(@, key).node]

\* kv.data.Get(key), kv.data.Set(key, value), kv.data.SetIfPresent(key, value)
\* and kv.data.Del(key) through the interface.
Geche_Get(kv, key) ==
    IF kv.kind = "MockErrCache" THEN MockErrCache_Get(key)
    ELSE IF kv.kind = "RingBuffer" THEN RingBuffer_Get(kv.data, key)
    ELSE MapCache_Get(kv.data, key)

Geche_Set(kv, key, value) ==
    IF kv.kind = "MockErrCache" THEN kv.data
    ELSE IF kv.kind = "RingBuffer" THEN RingBuffer_Set(kv.data, key, value).c
    ELSE MapCache_Set(kv.data, key, value)

Geche_SetIfPresent(kv, key, value) ==
    IF kv.kind = "MockErrCache" THEN kv.data
    ELSE IF kv.kind = "RingBuffer" THEN RingBuffer_SetIfPresent(kv.data, key, value).c
    ELSE MapCache_SetIfPresent(kv.data, key, value).data

Geche_Del(kv, key) ==
    IF kv.kind = "MockErrCache" THEN kv.data
    ELSE IF kv.kind = "RingBuffer" THEN RingBuffer_Del(kv.data, key)
    ELSE MapCache_Del(kv.data, key)

\* dfs: <<res, err, got>>, got being the keys dfs called kv.data.Get with, in
\* the order of the calls.
RECURSIVE KV_dfs(_, _, _)
\* The loop over the children going on after a child's error.
RECURSIVE KV_dfs_children_goon(_, _, _, _, _, _)
KV_dfs_children_goon(kv, node, currentPath, i, res, got) ==
    IF i < Len(node.children)
    THEN LET child == node.children[i + 1]
             childPath == currentPath \o child.b
             r == KV_dfs(kv, child, childPath)
         IN  KV_dfs_children_goon(kv, node, currentPath, i + 1, res \o r[1], got \o r[3])
    ELSE <<res, Nil, got>>

RECURSIVE KV_dfs_children(_, _, _, _, _, _)
KV_dfs_children(kv, node, currentPath, i, res, got) ==
    IF i < Len(node.children)
    THEN LET child == node.children[i + 1]
             childPath == currentPath \o child.b
             r == KV_dfs(kv, child, childPath)
         IN  IF r[2] # Nil THEN <<<< >>, r[2], got \o r[3]>>
             ELSE KV_dfs_children(kv, node, currentPath, i + 1, res \o r[1], got \o r[3])
    ELSE <<res, Nil, got>>

KV_dfs(kv, node, currentPath) ==
    IF node.terminal
    THEN LET g == Geche_Get(kv, currentPath) IN
         IF g[2] # Nil THEN <<<< >>, g[2], <<currentPath>>>>
         ELSE KV_dfs_children(kv, node, currentPath, 0, <<g[1]>>, <<currentPath>>)
    ELSE KV_dfs_children(kv, node, currentPath, 0, << >>, << >>)

\* ListByPrefix that starts the walk at the matched node with the path of the
\* prefix alone, without the rest of the node's segment.
RECURSIVE KV_ListByPrefix_loop_norest(_, _, _, _)
KV_ListByPrefix_loop_norest(kv, node, searchKey, path) ==
    IF Len(searchKey) > 0
    THEN LET f == findChild(node, searchKey[1]) IN
         IF ~f[2] THEN <<<< >>, Nil, << >>>>
         ELSE LET child == node.children[f[1] + 1]
                  common == commonPrefixLen(child.b, searchKey)
                  path2 == path \o SubSeq(child.b, 1, common)
              IN  IF common < Len(searchKey)
                  THEN IF common < Len(child.b) THEN <<<< >>, Nil, << >>>>
                       ELSE KV_ListByPrefix_loop_norest(kv, child,
                                                        SliceFrom(searchKey, common), path2)
                  ELSE KV_dfs(kv, child, path2)
    ELSE KV_dfs(kv, kv.trie, << >>)

\* ListByPrefix, the loop of lines 84-126 from node on: <<values, err, got>>
RECURSIVE KV_ListByPrefix_loop(_, _, _, _)
KV_ListByPrefix_loop(kv, node, searchKey, path) ==
    IF Len(searchKey) > 0
    THEN LET f == findChild(node, searchKey[1]) IN
         IF ~f[2] THEN <<<< >>, Nil, << >>>>
         ELSE LET child == node.children[f[1] + 1]
                  common == commonPrefixLen(child.b, searchKey)
                  path2 == path \o SubSeq(child.b, 1, common)
              IN  IF common < Len(searchKey)
                  THEN IF common < Len(child.b) THEN <<<< >>, Nil, << >>>>
                       ELSE KV_ListByPrefix_loop(kv, child, SliceFrom(searchKey, common), path2)
                  ELSE KV_dfs(kv, child, path2 \o SliceFrom(child.b, common))
    ELSE KV_dfs(kv, kv.trie, << >>)

\* <<values, err>>
KV_ListByPrefix(kv, prefix) ==
    LET r == KV_ListByPrefix_loop(kv, kv.trie, prefix, << >>) IN <<r[1], r[2]>>

KV_Set(kv, key, value) == KV_insert([kv EXCEPT !.data = Geche_Set(kv, key, value)], key)

\* SetIfPresent writing the key whether or not it is present.
KV_SetIfPresent_upsert(kv, key, value) ==
    [kv EXCEPT !.data = MapCache_Set(@, key, value)]

\* SetIfPresent goes to kv.data alone.
KV_SetIfPresent(kv, key, value) ==
    [kv EXCEPT !.data = Geche_SetIfPresent(kv, key, value)]

KV_Del(kv, key) == [KV_delete(kv, key) EXCEPT !.data = Geche_Del(kv, key)]

\* What a ListByPrefix hands to its caller.
KVWResult(prefix, list, err) == [prefix |-> prefix, list |-> list, err |-> err]
NoKVWRet == KVWResult(<< >>, << >>, "none")

\* The call that holds kv.mux (op is "none" when none does), its key, and
\* whether a SetIfPresent of that key came between its two writes.
KVWOp(op, key, raced) == [op |-> op, key |-> key, raced |-> raced]
NoKVWOp == KVWOp("none", << >>, FALSE)

KVWRoom(key) == key \in DOMAIN kvwRef \/ Cardinality(DOMAIN kvwRef) < MaxKVLen

KVWSet(key, value) ==
    /\ KVWOnly
    /\ kvwRet = NoKVWRet
    /\ KVWRoom(key)
    /\ kvw' = KV_Set(kvw, key, value)
    /\ kvwRef' = MapPut(kvwRef, key, value)
    /\ UNCHANGED <<kvwRet, kvwOp>>

KVWSetIfPresent(key, value) ==
    /\ KVWOnly
    /\ kvwRet = NoKVWRet
    /\ kvw' = KV_SetIfPresent(kvw, key, value)
    /\ kvwRef' = IF key \in DOMAIN kvwRef THEN MapPut(kvwRef, key, value) ELSE kvwRef
    /\ UNCHANGED <<kvwRet, kvwOp>>

KVWDel(key) ==
    /\ KVWOnly
    /\ kvwRet = NoKVWRet
    /\ kvw' = KV_Del(kvw, key)
    /\ kvwRef' = MapDel(kvwRef, key)
    /\ UNCHANGED <<kvwRet, kvwOp>>

KVWListByPrefix(prefix) ==
    /\ KVWOnly
    /\ kvwRet = NoKVWRet
    /\ LET r == KV_ListByPrefix(kvw, prefix) IN
       kvwRet' = KVWResult(prefix, r[1], r[2])
    /\ UNCHANGED <<kvw, kvwRef, kvwOp>>

KVWReturn ==
    /\ KVWOnly
    /\ kvwRet # NoKVWRet
    /\ kvwRet' = NoKVWRet
    /\ UNCHANGED <<kvw, kvwRef, kvwOp>>

KVWInit ==
    /\ kvw = NewKV
    /\ kvwRef = EmptyMap
    /\ kvwRet = NoKVWRet
    /\ kvwOp = NoKVWOp

\* NewKV(&MockErrCache{})
KVWInitMock ==
    /\ kvw = NewKVMock
    /\ kvwRef = EmptyMap
    /\ kvwRet = NoKVWRet
    /\ kvwOp = NoKVWOp

\* NewKV(NewRingBuffer(KVRingSize))
KVWInitRing ==
    /\ kvw = NewKVRing(KVRingSize)
    /\ kvwRef = EmptyMap
    /\ kvwRet = NoKVWRet
    /\ kvwOp = NoKVWOp

\* The calls of concurrent goroutines.  Set and Del hold kv.mux from their first
\* write to their second; SetIfPresent takes no lock of the wrapper and runs
\* between any two steps, under the lock of the cache alone.
\* Set: kv.mux.Lock() and kv.data.Set(key, value)
KVWSetData(key, value) ==
    /\ KVWOnly
    /\ kvwOp.op = "none"
    /\ KVWRoom(key)
    /\ kvw' = [kvw EXCEPT !.data = Geche_Set(kvw, key, value)]
    /\ kvwRef' = MapPut(kvwRef, key, value)
    /\ kvwOp' = KVWOp("Set", key, FALSE)
    /\ UNCHANGED kvwRet

\* Set: kv.insert(key) and the deferred kv.mux.Unlock()
KVWSetInsert ==
    /\ KVWOnly
    /\ kvwOp.op = "Set"
    /\ kvw' = KV_insert(kvw, kvwOp.key)
    /\ kvwOp' = [kvwOp EXCEPT !.op = "none"]
    /\ UNCHANGED <<kvwRef, kvwRet>>

\* Del: kv.mux.Lock() and kv.delete(key)
KVWDelTrie(key) ==
    /\ KVWOnly
    /\ kvwOp.op = "none"
    /\ kvw' = KV_delete(kvw, key)
    /\ kvwOp' = KVWOp("Del", key, FALSE)
    /\ UNCHANGED <<kvwRef, kvwRet>>

\* Del: kv.data.Del(key) and the deferred kv.mux.Unlock()
KVWDelData ==
    /\ KVWOnly
    /\ kvwOp.op = "Del"
    /\ kvw' = [kvw EXCEPT !.data = Geche_Del(kvw, kvwOp.key)]
    /\ kvwRef' = MapDel(kvwRef, kvwOp.key)
    /\ kvwOp' = [kvwOp EXCEPT !.op = "none"]
    /\ UNCHANGED kvwRet

\* SetIfPresent at any moment.
KVWConcSetIfPresent(key, value) ==
    /\ KVWOnly
    /\ kvw' = KV_SetIfPresent(kvw, key, value)
    /\ kvwRef' = IF key \in DOMAIN kvwRef THEN MapPut(kvwRef, key, value) ELSE kvwRef
    /\ kvwOp' = IF kvwOp.op # "none" /\ kvwOp.key = key /\ key \in DOMAIN kvwRef
                THEN [kvwOp EXCEPT !.raced = TRUE]
                ELSE kvwOp
    /\ UNCHANGED kvwRet

KVWConcNext ==
    \/ \E k \in KVKeys, v \in Vals : KVWSetData(k, v)
    \/ KVWSetInsert
    \/ \E k \in KVKeys : KVWDelTrie(k)
    \/ KVWDelData
    \/ \E k \in KVKeys, v \in Vals : KVWConcSetIfPresent(k, v)

KVWNext ==
    \/ \E k \in KVKeys, v \in Vals : KVWSet(k, v)
    \/ \E k \in KVKeys, v \in Vals : KVWSetIfPresent(k, v)
    \/ \E k \in KVKeys : KVWDel(k)
    \/ \E p \in KVKeys : KVWListByPrefix(p)
    \/ KVWReturn

\* The calls on the wrapper over the RingBuffer: keys under the one-byte prefix
\* "\x01", as many of them as overflow the ring.
UnderOne == {k \in KVKeys : HasPrefix(k, <<1>>)}

KVWRingNext ==
    \/ \E k \in UnderOne, v \in Vals : KVWSet(k, v)
    \/ \E k \in UnderOne, v \in Vals : KVWSetIfPresent(k, v)
    \/ \E k \in UnderOne : KVWDel(k)
    \/ \E p \in UnderOne : KVWListByPrefix(p)
    \/ KVWReturn

(***************************************************************************)
(* Claims about KV                                                         *)
(***************************************************************************)
\* What ListByPrefix(p) is to return: the values of the present keys that start
\* with p, in the byte order of the keys.
KVWListing(p) ==
    LET S == {k \in DOMAIN kvwRef : HasPrefix(k, p)}
        ks == Ascending(S)
    IN  [i \in 1..Len(ks) |-> kvwRef[ks[i]]]

\* C11: after any sequence of Set, SetIfPresent and Del through the wrapper over
\* a MapCache, the empty key included, ListByPrefix(p) returns, for every prefix
\* p and without an error, exactly the current values of the present keys that
\* start with p, each once, in ascending byte order of the keys.
C11_KVListByPrefixIsSortedListing ==
    \A p \in KVKeys :
        KV_ListByPrefix(kvw, p) = <<KVWListing(p), Nil>>

\* Three keys are present, the empty key among them, a key was deleted from
\* under a branch that now has a single child, and ListByPrefix has just
\* returned all three values.
C11_Witness ==
    /\ Cardinality(DOMAIN kvwRef) = 3
    /\ << >> \in DOMAIN kvwRef
    /\ kvwRet # NoKVWRet
    /\ kvwRet.err = Nil
    /\ Len(kvwRet.list) = 3
    /\ \E n \in DOMAIN kvw.trie.children :
           /\ ~kvw.trie.children[n].terminal
           /\ Len(kvw.trie.children[n].children) = 1

\* No node under (and including) node, the root aside, is non-terminal with
\* exactly one child.
RECURSIVE NoLonelyChild(_, _)
NoLonelyChild(node, isRoot) ==
    /\ isRoot \/ node.terminal \/ Len(node.children) # 1
    /\ \A i \in DOMAIN node.children : NoLonelyChild(node.children[i], FALSE)

\* C13: the trie of the KV wrapper keeps the structural contract of the KVCache
\* trie: Del merges a non-root non-terminal node that is left with exactly one
\* child with that child, so after any sequence of Set and Del no non-root
\* non-terminal node has exactly one child.
C13_KVTrieNoLonelyChild == NoLonelyChild(kvw.trie, TRUE)

\* C29: if the underlying cache's Get returns an error for any key visited
\* while listing, ListByPrefix returns that very error and a nil result; the
\* listing stops at the first error and no partial list is returned.  Here the
\* cache is the MockErrCache, whose Get fails for the key ErrKey alone and
\* returns the zero value for every other key.
C29_ListByPrefixReturnsStoreError ==
    \A p \in KVKeys :
        LET r == KV_ListByPrefix_loop(kvw, kvw.trie, p, << >>)
            keys == Ascending({k \in DOMAIN kvwRef : HasPrefix(k, p)})
            stop == CHOOSE i \in DOMAIN keys : keys[i] = ErrKey
        IN  /\ KV_ListByPrefix(kvw, p) = <<r[1], r[2]>>
            /\ IF ErrKey \in SeqElems(keys)
               THEN /\ r[1] = << >>
                    /\ r[2] = ErrMock
                    /\ r[3] = SubSeq(keys, 1, stop)
               ELSE /\ r[1] = [i \in 1..Len(keys) |-> ZeroV]
                    /\ r[2] = Nil
                    /\ r[3] = keys

\* C29's case: ListByPrefix of a prefix of one byte has returned the error and no
\* value with three keys under the prefix, of which one comes before the key
\* Get fails for and one after it.
C29_Witness ==
    /\ kvwRet.err = ErrMock /\ kvwRet.list = << >>
    /\ kvwRet.prefix = <<1>>
    /\ DOMAIN kvwRef = {<<1>>, ErrKey, <<1, 2>>}

\* The keys the trie under node marks terminal, path being the key of node.
RECURSIVE TrieKeys(_, _)
TrieKeys(node, path) ==
    (IF node.terminal THEN {path} ELSE {})
        \cup UNION {TrieKeys(node.children[i], path \o node.children[i].b) :
                       i \in DOMAIN node.children}

\* C30: whenever no wrapper Set or Del is in progress, every key present in the
\* underlying store is marked terminal in the trie; no mutation path through
\* the wrapper (Set, SetIfPresent, Del, in any concurrent interleaving) can
\* leave a key in the store that the trie does not know.
C30_StoreKeysAreInTrie ==
    kvwOp.op = "none" => DOMAIN kvw.data \subseteq TrieKeys(kvw.trie, << >>)

\* C30's case: a Del has finished during which a SetIfPresent wrote the key it
\* deleted, after the key had left the trie; two other keys are present.
C30_Witness ==
    /\ kvwOp = KVWOp("none", kvwOp.key, TRUE)
    /\ kvwOp.key \notin DOMAIN kvw.data
    /\ Cardinality(DOMAIN kvw.data) = 2

\* The keys kv.data.Get returns without an error.
Retrievable(kv) == {k \in KVKeys : Geche_Get(kv, k)[2] = Nil}

\* C35: the KV wrapper over an evicting store, here a RingBuffer: after the ring
\* has overwritten keys on its own, ListByPrefix(p) still returns, without an
\* error, the values of exactly the keys that are still retrievable and start
\* with p, and the trie holds no key that the store no longer has.
C35_ListingSurvivesEviction ==
    /\ \A p \in KVKeys :
           LET ks == Ascending({k \in Retrievable(kvw) : HasPrefix(k, p)})
           IN  KV_ListByPrefix(kvw, p) = <<[i \in 1..Len(ks) |-> Geche_Get(kvw, ks[i])[1]], Nil>>
    /\ TrieKeys(kvw.trie, << >>) \subseteq Retrievable(kvw)

\* The listing alone: ListByPrefix returns no error.
ListingOverRingNeverFails ==
    \A p \in KVKeys : KV_ListByPrefix(kvw, p)[2] = Nil

\* The two tries side by side, as TestKVCacheAlloc and TestKVAlloc use them: the
\* same Set and Del go to a KVCache and to a KV over a MapCache.
TrieSet(key, value) ==
    /\ Room(key)
    /\ kvc' = KVCache_Set(kvc, key, value).kv
    /\ kvw' = KV_Set(kvw, key, value)
    /\ kvRef' = MapPut(kvRef, key, value)
    /\ kvwRef' = MapPut(kvwRef, key, value)
    /\ UNCHANGED <<ttlVars, updVars, ringVars, lockVars, moreVars, kvRet, kvwRet, kvwOp>>

TrieDel(key) ==
    /\ kvc' = KVCache_Del(kvc, key).kv
    /\ kvw' = KV_Del(kvw, key)
    /\ kvRef' = MapDel(kvRef, key)
    /\ kvwRef' = MapDel(kvwRef, key)
    /\ UNCHANGED <<ttlVars, updVars, ringVars, lockVars, moreVars, kvRet, kvwRet, kvwOp>>

TrieNext ==
    \/ \E k \in KVKeys, v \in Vals : TrieSet(k, v)
    \/ \E k \in KVKeys : TrieDel(k)

\* The nodes of a trie, the root included.
RECURSIVE TrieSize(_)
TrieSize(node) ==
    LET sub[i \in 0..Len(node.children)] ==
            IF i = 0 THEN 0 ELSE sub[i - 1] + TrieSize(node.children[i])
    IN  1 + sub[Len(node.children)]

\* C27: for KVCache and the KV wrapper alike, after inserting any set of keys
\* and then deleting every one of them, in any order, the trie is back in the
\* empty state: the root is not terminal and has no children, no node of a
\* deleted key remains reachable, and for KVCache Len() = 0.
C27_AllDeletedTrieEmpty ==
    /\ kvRef = EmptyMap =>
           /\ ~kvc.trie.terminal /\ kvc.trie.children = << >>
           /\ TrieSize(kvc.trie) = 1
           /\ KVCache_Len(kvc) = 0
           /\ \A k \in KVKeys : ~KVCache_Get(kvc, k).ret.ok
    /\ kvwRef = EmptyMap =>
           /\ ~kvw.trie.terminal /\ kvw.trie.children = << >>
           /\ TrieSize(kvw.trie) = 1
           /\ kvw.data = EmptyMap

\* C27's case: three keys were inserted into both tries and all three were deleted
\* again: the arena of the KVCache has three slots, all of them free.
C27_Witness ==
    /\ kvRef = EmptyMap /\ kvwRef = EmptyMap
    /\ Len(kvc.values) = MaxKVLen
    /\ Len(kvc.freelist) = MaxKVLen

(***************************************************************************)
(* Locker (locker.go) over a MapCache of accounts, used as                 *)
(* TestLockerParallel uses it: every goroutine of LockProcs takes a Tx     *)
(* with Lock() and moves an amount between two accounts, or takes a Tx     *)
(* with RLock() and adds all balances up.  A goroutine keeps its Tx to     *)
(* itself, so a method of Tx is one step: nobody else reads or writes      *)
(* tx.unlocked, and the delegated MapCache operation is atomic under the   *)
(* MapCache's own mutex.  Besides, a goroutine may at any time call a      *)
(* method its Tx does not allow: a write through a read-only Tx, or        *)
(* anything through a Tx it has unlocked.                                  *)
(***************************************************************************)
LockProcs == 1..NumLockProcs
Accounts == 1..NumAccounts
TotalBalance == NumAccounts * InitialBalance

\* sync.RWMutex: w, a writer holds it; r, the number of readers holding it;
\* fatal, the runtime's "unlock of unlocked RWMutex".
RWMutex == [w |-> FALSE, r |-> 0, fatal |-> FALSE]
\* Lock blocks while RWMutex_LockWaits, RLock while RWMutex_RLockWaits.
RWMutex_LockWaits(m) == m.w \/ m.r > 0
RWMutex_Lock(m) == [m EXCEPT !.w = TRUE]
RWMutex_RLockWaits(m) == m.w
RWMutex_RLock(m) == [m EXCEPT !.r = @ + 1]
RWMutex_Unlock(m) == IF m.w THEN [m EXCEPT !.w = FALSE] ELSE [m EXCEPT !.fatal = TRUE]
RWMutex_RUnlock(m) == IF m.r > 0 THEN [m EXCEPT !.r = @ - 1] ELSE [m EXCEPT !.fatal = TRUE]

\* NewLocker(cache)
NewLocker(cache) == [cache |-> cache, mux |-> RWMutex]

\* Tx; cache and mux of a Tx are those of its Locker.
Tx(writable) == [writable |-> writable, unlocked |-> 0]
NoTx == [writable |-> FALSE, unlocked |-> 0 - 1]

\* Lock and RLock: [waits |-> the call blocks, locker |-> the Locker once the
\* call returns, tx |-> the Tx it returns]
Locker_Lock_shared(l) ==
    [waits |-> RWMutex_RLockWaits(l.mux),
     locker |-> [l EXCEPT !.mux = RWMutex_RLock(@)],
     tx |-> Tx(TRUE)]

Locker_Lock(l) ==
    [waits |-> RWMutex_LockWaits(l.mux),
     locker |-> [l EXCEPT !.mux = RWMutex_Lock(@)],
     tx |-> Tx(TRUE)]

Locker_RLock(l) ==
    [waits |-> RWMutex_RLockWaits(l.mux),
     locker |-> [l EXCEPT !.mux = RWMutex_RLock(@)],
     tx |-> Tx(FALSE)]

\* What a method of Tx leaves and returns: the Locker's cache and mutex, the
\* Tx, whether the call panicked, and the value it returned.
TxResult(l, tx, panicked, val) == [locker |-> l, tx |-> tx, panicked |-> panicked, val |-> val]
TxPanic(l, tx) == TxResult(l, tx, TRUE, ZeroV)

Tx_Unlock_unchecked(l, tx) ==
    TxResult([l EXCEPT !.mux = IF tx.writable THEN RWMutex_Unlock(@) ELSE RWMutex_RUnlock(@)],
             [tx EXCEPT !.unlocked = 1], FALSE, ZeroV)

Tx_Unlock(l, tx) ==
    IF tx.unlocked = 1 THEN TxPanic(l, tx)
    ELSE TxResult([l EXCEPT !.mux = IF tx.writable THEN RWMutex_Unlock(@)
                                    ELSE RWMutex_RUnlock(@)],
                  [tx EXCEPT !.unlocked = 1], FALSE, ZeroV)

Tx_Set(l, tx, key, value) ==
    IF tx.unlocked = 1 THEN TxPanic(l, tx)
    ELSE IF ~tx.writable THEN TxPanic(l, tx)
    ELSE TxResult([l EXCEPT !.cache = MapCache_Set(@, key, value)], tx, FALSE, ZeroV)

Tx_SetIfPresent(l, tx, key, value) ==
    IF tx.unlocked = 1 THEN TxPanic(l, tx)
    ELSE IF ~tx.writable THEN TxPanic(l, tx)
    ELSE LET r == MapCache_SetIfPresent(l.cache, key, value) IN
         TxResult([l EXCEPT !.cache = r.data], tx, FALSE, r.old)

\* MapCache.SetIfAbsent: [data, old, ok]
MapCache_SetIfAbsent(data, key, value) ==
    IF key \in DOMAIN data
    THEN [data |-> data, old |-> data[key], ok |-> FALSE]
    ELSE [data |-> MapPut(data, key, value), old |-> ZeroV, ok |-> TRUE]

Tx_SetIfAbsent(l, tx, key, value) ==
    IF tx.unlocked = 1 THEN TxPanic(l, tx)
    ELSE IF ~tx.writable THEN TxPanic(l, tx)
    ELSE LET r == MapCache_SetIfAbsent(l.cache, key, value) IN
         TxResult([l EXCEPT !.cache = r.data], tx, FALSE, r.old)

Tx_Get(l, tx, key) ==
    IF tx.unlocked = 1 THEN TxPanic(l, tx)
    ELSE TxResult(l, tx, FALSE, MapCache_Get(l.cache, key)[1])

Tx_Del(l, tx, key) ==
    IF tx.unlocked = 1 THEN TxPanic(l, tx)
    ELSE IF ~tx.writable THEN TxPanic(l, tx)
    ELSE TxResult([l EXCEPT !.cache = MapCache_Del(@, key)], tx, FALSE, ZeroV)

\* Snapshot and Len read the cache; the model keeps the length for both.
Tx_Len(l, tx) ==
    IF tx.unlocked = 1 THEN TxPanic(l, tx)
    ELSE TxResult(l, tx, FALSE, Cardinality(DOMAIN l.cache))

Tx_Snapshot(l, tx) ==
    IF tx.unlocked = 1 THEN TxPanic(l, tx)
    ELSE TxResult(l, tx, FALSE, Cardinality(DOMAIN l.cache))

\* A goroutine of the test: where it is, its Tx and its locals.
LockIdle == [pc |-> "idle", tx |-> NoTx, accA |-> 0, accB |-> 0, balA |-> 0, balB |-> 0,
             i |-> 0, sum |-> 0]

\* A call a Tx does not allow, and whether it panicked.
LockResult(p, op, panicked) == [proc |-> p, op |-> op, panicked |-> panicked]
NoLockRet == LockResult(0, "none", FALSE)

LockAt(p, l) == lockProcs[p].pc = l /\ lockRet = NoLockRet

\* tx := locker.Lock() of a transfer between accA and accB
LockerLock(p, accA, accB) ==
    /\ LockOnly
    /\ LockAt(p, "idle")
    /\ accA # accB
    /\ LET r == Locker_Lock(locker) IN
       /\ ~r.waits
       /\ locker' = r.locker
       /\ lockProcs' = [lockProcs EXCEPT ![p] = [@ EXCEPT !.pc = "getA", !.tx = r.tx,
                                                       !.accA = accA, !.accB = accB]]
    /\ UNCHANGED lockRet

\* balA, _ := tx.Get(accA)
TransferGetA(p) ==
    /\ LockOnly
    /\ LockAt(p, "getA")
    /\ LET r == Tx_Get(locker, lockProcs[p].tx, lockProcs[p].accA) IN
       /\ ~r.panicked
       /\ lockProcs' = [lockProcs EXCEPT ![p] = [@ EXCEPT !.pc = "getB", !.balA = r.val]]
    /\ UNCHANGED <<locker, lockRet>>

\* balB, _ := tx.Get(accB), and the choice of the amount; rand.Intn(n) draws
\* from 0..n-1.
TransferGetB(p, size) ==
    /\ LockOnly
    /\ LockAt(p, "getB")
    /\ LET r == Tx_Get(locker, lockProcs[p].tx, lockProcs[p].accB)
           balA == lockProcs[p].balA
           balB == r.val
       IN  /\ ~r.panicked
           /\ IF balA < balB
              THEN /\ size \in 0..(balB - 1)
                   /\ lockProcs' = [lockProcs EXCEPT ![p] =
                          [@ EXCEPT !.pc = "setA", !.balA = balA + size, !.balB = balB - size]]
              ELSE /\ size \in 0..(balA - 1)
                   /\ lockProcs' = [lockProcs EXCEPT ![p] =
                          [@ EXCEPT !.pc = "setA", !.balA = balA - size, !.balB = balB + size]]
    /\ UNCHANGED <<locker, lockRet>>

\* tx.Set(accA, balA)
TransferSetA(p) ==
    /\ LockOnly
    /\ LockAt(p, "setA")
    /\ LET r == Tx_Set(locker, lockProcs[p].tx, lockProcs[p].accA, lockProcs[p].balA) IN
       /\ ~r.panicked
       /\ locker' = r.locker
       /\ lockProcs' = [lockProcs EXCEPT ![p] = [@ EXCEPT !.pc = "setB"]]
    /\ UNCHANGED lockRet

\* tx.Set(accB, balB)
TransferSetB(p) ==
    /\ LockOnly
    /\ LockAt(p, "setB")
    /\ LET r == Tx_Set(locker, lockProcs[p].tx, lockProcs[p].accB, lockProcs[p].balB) IN
       /\ ~r.panicked
       /\ locker' = r.locker
       /\ lockProcs' = [lockProcs EXCEPT ![p] = [@ EXCEPT !.pc = "unlock"]]
    /\ UNCHANGED lockRet

\* tx = locker.RLock() of the goroutine that adds the balances up
LockerRLock(p) ==
    /\ LockOnly
    /\ LockAt(p, "idle")
    /\ LET r == Locker_RLock(locker) IN
       /\ ~r.waits
       /\ locker' = r.locker
       /\ lockProcs' = [lockProcs EXCEPT ![p] = [@ EXCEPT !.pc = "read", !.tx = r.tx]]
    /\ UNCHANGED lockRet

\* bal, _ := tx.Get(i); sum += bal
ReaderGet(p) ==
    /\ LockOnly
    /\ LockAt(p, "read")
    /\ LET r == Tx_Get(locker, lockProcs[p].tx, lockProcs[p].i + 1) IN
       /\ ~r.panicked
       /\ lockProcs' = [lockProcs EXCEPT ![p] =
              [@ EXCEPT !.i = @ + 1, !.sum = @ + r.val,
                        !.pc = IF lockProcs[p].i + 1 = NumAccounts THEN "unlock" ELSE "read"]]
    /\ UNCHANGED <<locker, lockRet>>

\* tx.Unlock() at the end of a transfer or of the adding up
TxUnlock(p) ==
    /\ LockOnly
    /\ LockAt(p, "unlock")
    /\ LET r == Tx_Unlock(locker, lockProcs[p].tx) IN
       /\ ~r.panicked
       /\ locker' = r.locker
       /\ lockProcs' = [lockProcs EXCEPT ![p] = [@ EXCEPT !.pc = "released", !.tx = r.tx]]
    /\ UNCHANGED lockRet

\* The methods of Tx by name.
TxMethods == {"Set", "SetIfPresent", "SetIfAbsent", "Del", "Get", "Len", "Snapshot", "Unlock"}
TxWrites == {"Set", "SetIfPresent", "SetIfAbsent", "Del"}

TxCallMethod(l, tx, m, key, value) ==
    CASE m = "Set" -> Tx_Set(l, tx, key, value)
      [] m = "SetIfPresent" -> Tx_SetIfPresent(l, tx, key, value)
      [] m = "SetIfAbsent" -> Tx_SetIfAbsent(l, tx, key, value)
      [] m = "Del" -> Tx_Del(l, tx, key)
      [] m = "Get" -> Tx_Get(l, tx, key)
      [] m = "Len" -> Tx_Len(l, tx)
      [] m = "Snapshot" -> Tx_Snapshot(l, tx)
      [] m = "Unlock" -> Tx_Unlock(l, tx)

\* A call the Tx of p does not allow: a write through a Tx of RLock, or any
\* method once the Tx is unlocked.  The caller recovers from the panic, as the
\* helper panics() of the tests does, and goes on where it was.
TxMisuse(p, m, key, value) ==
    /\ LockOnly
    /\ lockRet = NoLockRet
    /\ lockProcs[p].tx # NoTx
    /\ \/ lockProcs[p].tx.unlocked = 1
       \/ ~lockProcs[p].tx.writable /\ m \in TxWrites
    /\ LET r == TxCallMethod(locker, lockProcs[p].tx, m, key, value) IN
       /\ locker' = r.locker
       /\ lockProcs' = [lockProcs EXCEPT ![p] = [@ EXCEPT !.tx = r.tx]]
       /\ lockRet' = LockResult(p, m, r.panicked)

\* The goroutine lets go of its unlocked Tx.
TxDrop(p) ==
    /\ LockOnly
    /\ LockAt(p, "released")
    /\ lockProcs' = [lockProcs EXCEPT ![p] = LockIdle]
    /\ UNCHANGED <<locker, lockRet>>

LockReturn ==
    /\ LockOnly
    /\ lockRet # NoLockRet
    /\ lockRet' = NoLockRet
    /\ UNCHANGED <<locker, lockProcs>>

\* The Locker of the test once its first Tx has set every account to the
\* initial balance and is unlocked.
LockInit ==
    /\ locker = [NewLocker(NewMapCache) EXCEPT !.cache = [a \in Accounts |-> InitialBalance]]
    /\ lockProcs = [p \in LockProcs |-> LockIdle]
    /\ lockRet = NoLockRet

LockNext ==
    \/ \E p \in LockProcs, a, b \in Accounts : LockerLock(p, a, b)
    \/ \E p \in LockProcs : TransferGetA(p)
    \/ \E p \in LockProcs, size \in 0..TotalBalance : TransferGetB(p, size)
    \/ \E p \in LockProcs : TransferSetA(p)
    \/ \E p \in LockProcs : TransferSetB(p)
    \/ \E p \in LockProcs : LockerRLock(p)
    \/ \E p \in LockProcs : ReaderGet(p)
    \/ \E p \in LockProcs : TxUnlock(p)
    \/ \E p \in LockProcs, m \in TxMethods, k \in Accounts : TxMisuse(p, m, k, InitialBalance)
    \/ \E p \in LockProcs : TxDrop(p)
    \/ LockReturn

(***************************************************************************)
(* A Tx that goroutines share.  One goroutine takes the Tx with Lock() or  *)
(* RLock() and hands it to the goroutines of Unlockers, each of which      *)
(* calls tx.Unlock() once; meanwhile goroutines of LockProcs take and      *)
(* unlock transactions of their own.  Unlock reads tx.unlocked, writes it  *)
(* and releases the mutex in three steps (atomic.LoadInt32,                *)
(* atomic.StoreInt32, mux.Unlock or mux.RUnlock), and the goroutines       *)
(* interleave between them.  The runtime ends the program at an unlock of  *)
(* an unlocked mutex.                                                      *)
(***************************************************************************)
Unlockers == 1..NumUnlockers

StxOnly == UNCHANGED <<ttlVars, updVars, ringVars, kvVars, kvwVars, snapVars, shardVars>>

\* Unlock, line 62: the test of tx.unlocked.
Tx_Unlock_load(tx) == tx.unlocked = 1

\* Unlock, line 65: atomic.StoreInt32(&tx.unlocked, 1)
Tx_Unlock_store(tx) == [tx EXCEPT !.unlocked = 1]

\* Unlock, lines 66-70: the release of the Locker's mutex.
Tx_Unlock_release(l, tx) ==
    [l EXCEPT !.mux = IF tx.writable THEN RWMutex_Unlock(@) ELSE RWMutex_RUnlock(@)]

\* tx := locker.Lock() or locker.RLock() of the Tx the goroutines share
SharedTxLock(writable) ==
    /\ StxOnly
    /\ lockRet = NoLockRet
    /\ stx.tx = NoTx
    /\ LET r == IF writable THEN Locker_Lock(locker) ELSE Locker_RLock(locker) IN
       /\ ~r.waits
       /\ locker' = r.locker
       /\ stx' = [stx EXCEPT !.tx = r.tx]
    /\ UNCHANGED <<lockProcs, lockRet, unlockers>>

\* tx.Unlock() of goroutine u, the load: it panics or goes on
SharedUnlockLoad(u) ==
    /\ StxOnly
    /\ ~locker.mux.fatal
    /\ stx.tx # NoTx
    /\ unlockers[u] = "idle"
    /\ unlockers' = [unlockers EXCEPT ![u] = IF Tx_Unlock_load(stx.tx) THEN "panicked" ELSE "loaded"]
    /\ UNCHANGED <<lockVars, stx>>

\* tx.Unlock() of goroutine u, the store
SharedUnlockStore(u) ==
    /\ StxOnly
    /\ ~locker.mux.fatal
    /\ unlockers[u] = "loaded"
    /\ stx' = [stx EXCEPT !.tx = Tx_Unlock_store(@)]
    /\ unlockers' = [unlockers EXCEPT ![u] = "stored"]
    /\ UNCHANGED lockVars

\* tx.Unlock() of goroutine u, the release of the mutex and the return
SharedUnlockRelease(u) ==
    /\ StxOnly
    /\ ~locker.mux.fatal
    /\ unlockers[u] = "stored"
    /\ locker' = Tx_Unlock_release(locker, stx.tx)
    /\ stx' = [stx EXCEPT !.releases = @ + 1]
    /\ unlockers' = [unlockers EXCEPT ![u] = "returned"]
    /\ UNCHANGED <<lockProcs, lockRet>>

StxInit ==
    /\ stx = [tx |-> NoTx, releases |-> 0]
    /\ unlockers = [u \in Unlockers |-> "idle"]

\* The other goroutines make transfers of the amount 0 between the first and the
\* last account, or add the balances up; they are stopped with the program.
StxNext ==
    \/ \E writable \in BOOLEAN : SharedTxLock(writable)
    \/ \E u \in Unlockers : SharedUnlockLoad(u)
    \/ \E u \in Unlockers : SharedUnlockStore(u)
    \/ \E u \in Unlockers : SharedUnlockRelease(u)
    \/ ~locker.mux.fatal /\ \E p \in LockProcs : LockerLock(p, 1, NumAccounts)
    \/ ~locker.mux.fatal /\ \E p \in LockProcs : TransferGetA(p)
    \/ ~locker.mux.fatal /\ \E p \in LockProcs : TransferGetB(p, 0)
    \/ ~locker.mux.fatal /\ \E p \in LockProcs : TransferSetA(p)
    \/ ~locker.mux.fatal /\ \E p \in LockProcs : TransferSetB(p)
    \/ ~locker.mux.fatal /\ \E p \in LockProcs : LockerRLock(p)
    \/ ~locker.mux.fatal /\ \E p \in LockProcs : ReaderGet(p)
    \/ ~locker.mux.fatal /\ \E p \in LockProcs : TxUnlock(p)
    \/ ~locker.mux.fatal /\ \E p \in LockProcs : TxDrop(p)

(***************************************************************************)
(* Claims about Locker                                                     *)
(***************************************************************************)
\* p holds a Tx it has not unlocked.
LiveTx(p) == lockProcs[p].tx # NoTx /\ lockProcs[p].tx.unlocked = 0

RECURSIVE SumBalances(_, _)
SumBalances(cache, n) == IF n = 0 THEN 0 ELSE cache[n] + SumBalances(cache, n - 1)

\* C14: a Tx of Lock() excludes every other Tx, of Lock() or of RLock(), until
\* it is unlocked, and so the transfers are atomic: whenever no Tx of Lock() is
\* held the balances add up to what they added up to at first, and every
\* goroutine that added them up under a Tx of RLock() got that sum.
C14_LockExcludesAndSumKept ==
    /\ \A p \in LockProcs :
           LiveTx(p) /\ lockProcs[p].tx.writable =>
               \A q \in LockProcs \ {p} : ~LiveTx(q)
    /\ (\A p \in LockProcs : ~(LiveTx(p) /\ lockProcs[p].tx.writable)) =>
           SumBalances(locker.cache, NumAccounts) = TotalBalance
    /\ \A p \in LockProcs :
           lockProcs[p].pc \in {"unlock", "released"} /\ ~lockProcs[p].tx.writable =>
               lockProcs[p].sum = TotalBalance

\* A transfer has moved an amount, the balances differ from the initial ones,
\* and a goroutine holding a Tx of RLock() has added them up.
C14_Witness ==
    /\ \E a \in Accounts : locker.cache[a] # InitialBalance
    /\ \E p \in LockProcs :
           /\ LiveTx(p)
           /\ ~lockProcs[p].tx.writable
           /\ lockProcs[p].pc = "unlock"
    /\ \E q \in LockProcs : lockProcs[q].pc = "released" /\ lockProcs[q].tx.writable

\* C15: a write through a Tx of RLock, any method of a Tx after its Unlock, and
\* a second Unlock of a Tx panic, and leave the underlying cache and the lock
\* as they were.
C15_MisusePanics ==
    [][(\E p \in LockProcs, m \in TxMethods, k \in Accounts : TxMisuse(p, m, k, InitialBalance))
           => /\ lockRet'.panicked
              /\ locker' = locker]_vars

\* A second Unlock of a Tx of RLock has just panicked while another goroutine
\* holds a Tx of RLock.
C15_Witness ==
    /\ lockRet.op = "Unlock"
    /\ lockRet.panicked
    /\ ~lockProcs[lockRet.proc].tx.writable
    /\ locker.mux.r = 1

\* C37: of two Unlock calls issued concurrently on the same Tx, exactly one
\* releases the Locker's lock and the other panics; the lock is never released
\* twice, so a Tx that another goroutine acquires in between keeps its
\* exclusivity until its own Unlock.
C37_ConcurrentUnlockReleasesOnce ==
    /\ stx.releases <= 1
    /\ ~locker.mux.fatal
    /\ (\A u \in Unlockers : unlockers[u] \in {"returned", "panicked"}) =>
           Cardinality({u \in Unlockers : unlockers[u] = "returned"}) = 1
    /\ \A p \in LockProcs :
           LiveTx(p) /\ lockProcs[p].tx.writable =>
               /\ locker.mux.w
               /\ \A q \in LockProcs \ {p} : ~LiveTx(q)

\* The part of C37 about the Tx of another goroutine alone.
OtherTxKeepsExclusivity ==
    \A p \in LockProcs :
        LiveTx(p) /\ lockProcs[p].tx.writable =>
            /\ locker.mux.w
            /\ \A q \in LockProcs \ {p} : ~LiveTx(q)

(***************************************************************************)
(* The behaviour every implementation of Geche shares (common_test.go runs *)
(* one test body against each of them): the same sequence of Set and Del   *)
(* is applied to a MapTTLCache, a RingBuffer and a KVCache, one call of    *)
(* each per step.  The clock moves only while no entry would reach its ttl *)
(* by the move, and a Set is made only while the ring has seen fewer       *)
(* writes than it has slots, the new one counted.                          *)
(***************************************************************************)
BasicKeys == 1..MaxBasicKey

\* The key the KVCache gets for key k of the other two: "a", "aa", "ab", ...
KVKeyOf(k) == IF k = 1 THEN <<1>> ELSE <<1, k - 1>>

BasicSet(key, value) ==
    /\ ring.head + 1 < Len(ring.data)
    /\ ttlc' = MapTTLCache_Set(ttlc, key, value, now).c
    /\ ring' = RingBuffer_Set(ring, key, value).c
    /\ kvc' = KVCache_Set(kvc, KVKeyOf(key), value).kv
    /\ kvRef' = MapPut(kvRef, KVKeyOf(key), value)
    /\ UNCHANGED <<now, pc, evicted, cbFn, owed, cbStray, ttlRet, updVars, ringOrder, ringLast,
                   ringPristine, ringAge, ringRet, kvRet, kvwVars, lockVars, moreVars>>

BasicDel(key) ==
    /\ ttlc' = MapTTLCache_Del(ttlc, key, now).c
    /\ ring' = RingBuffer_Del(ring, key)
    /\ kvc' = KVCache_Del(kvc, KVKeyOf(key)).kv
    /\ kvRef' = MapDel(kvRef, KVKeyOf(key))
    /\ UNCHANGED <<now, pc, evicted, cbFn, owed, cbStray, ttlRet, updVars, ringOrder, ringLast,
                   ringPristine, ringAge, ringRet, kvRet, kvwVars, lockVars, moreVars>>

BasicTick ==
    /\ now < StartTime + MaxTicks
    /\ \A key \in DOMAIN ttlc.data : (now + 1) - ttlc.data[key].timestamp < TTL
    /\ now' = now + 1
    /\ UNCHANGED <<ttlc, pc, evicted, cbFn, owed, cbStray, ttlRet, updVars, ringVars, kvVars,
                   kvwVars, lockVars, moreVars>>

BasicNext ==
    \/ \E k \in BasicKeys, v \in Vals : BasicSet(k, v)
    \/ \E k \in BasicKeys : BasicDel(k)
    \/ BasicTick

\* What Get(key) is to return: the value of the latest Set(key) no Del(key)
\* followed, or ErrNotFound.
BasicExpected(key) ==
    IF KVKeyOf(key) \in DOMAIN kvRef THEN <<kvRef[KVKeyOf(key)], Nil>>
    ELSE <<ZeroV, ErrNotFound>>

\* <<value, err>> of KVCache.Get, with the zero value on a miss.
KVCache_GetPair(kv, key) ==
    LET r == KVCache_Get(kv, key).ret IN
    IF r.ok THEN <<r.val, Nil>> ELSE <<ZeroV, ErrNotFound>>

\* <<value, err>> of MapTTLCache.Get, with the zero value on a miss.
MapTTLCache_GetPair(c, key, t) ==
    LET r == MapTTLCache_Get(c, key, t).ret IN
    IF r.ok THEN <<r.val, Nil>> ELSE <<ZeroV, ErrNotFound>>

\* C20: for MapTTLCache while no entry reaches its ttl, RingBuffer while fewer
\* slot-consuming writes than its capacity have been made, and KVCache alike:
\* after any sequence of Set and Del, Get(k) returns the value of the latest
\* Set(k) if no Del(k) followed it and ErrNotFound otherwise, and Del of an
\* absent key returns nil and changes nothing.
C20_GetReturnsLatestSet ==
    \A k \in BasicKeys :
        /\ MapTTLCache_GetPair(ttlc, k, now) = BasicExpected(k)
        /\ RingBuffer_Get(ring, k) = BasicExpected(k)
        /\ KVCache_GetPair(kvc, KVKeyOf(k)) = BasicExpected(k)
        /\ KVKeyOf(k) \notin DOMAIN kvRef =>
               /\ MapTTLCache_Del(ttlc, k, now) = [c |-> ttlc, ret |-> Ret("Del", ZeroK, ZeroV, TRUE)]
               /\ RingBuffer_Del(ring, k) = ring
               /\ KVCache_Del(kvc, KVKeyOf(k)) =
                      [kv |-> kvc, ret |-> KVResult("Del", ZeroV, TRUE, << >>)]

\* A key was set, deleted and set again, another key was set twice, and a third
\* key is absent: the ring has used four slots and the KVCache has reused a
\* freed value slot.
C20_Witness ==
    /\ ring.head = 4
    /\ Cardinality(DOMAIN kvRef) = 2
    /\ Cardinality(DOMAIN ttlc.data) = 2
    /\ Len(kvc.values) = 2
    /\ kvc.freelist = << >>
    /\ \E k \in BasicKeys : KVKeyOf(k) \notin DOMAIN kvRef

(***************************************************************************)
(* Sharded (shard.go) over MapCache shards with the NumberMapper.  Every   *)
(* call is made on the Sharded object and on one MapCache side by side.    *)
(***************************************************************************)
ShardOnly == UNCHANGED <<ttlVars, updVars, ringVars, kvVars, kvwVars, lockVars, stxVars, snapVars>>

ShardKeys == (-1)..MaxShardKey

\* 2^e modulo n.
RECURSIVE Pow2Mod(_, _)
Pow2Mod(e, n) == IF e = 0 THEN 1 % n ELSE (2 * Pow2Mod(e - 1, n)) % n

\* uint64(key) % uint64(numShards): uint64 of a negative key is 2^64 + key.
Uint64Mod(key, numShards) ==
    IF key >= 0 THEN key % numShards
    ELSE (Pow2Mod(64, numShards) + (key % numShards)) % numShards

NumberMapper_Map(key, numShards) == Uint64Mod(key, numShards)

\* defaultShardNumber on a machine of cpus cores: 1 << ceil(log2(cpus)).
RECURSIVE CeilLog2(_)
CeilLog2(n) == IF n <= 1 THEN 0 ELSE 1 + CeilLog2((n + 1) \div 2)

defaultShardNumber(cpus) == 2 ^ CeilLog2(cpus)

\* NewSharded(NewMapCache, numShards, &NumberMapper{}) on a machine of cpus cores.
NewSharded(numShards, cpus) ==
    LET n == IF numShards <= 0 THEN defaultShardNumber(cpus) ELSE numShards
    IN  [N |-> n, shards |-> [i \in 1..n |-> NewMapCache], mapper |-> "NumberMapper"]

\* s.shards[s.mapper.Map(key, s.N)], as an index from 1.
Sharded_shard(s, key) == NumberMapper_Map(key, s.N) + 1

Sharded_Set(s, key, value) ==
    [s EXCEPT !.shards[Sharded_shard(s, key)] = MapCache_Set(@, key, value)]

\* SetIfPresent and SetIfAbsent: [s, old, ok]
Sharded_SetIfPresent(s, key, value) ==
    LET r == MapCache_SetIfPresent(s.shards[Sharded_shard(s, key)], key, value)
    IN  [s |-> [s EXCEPT !.shards[Sharded_shard(s, key)] = r.data], old |-> r.old, ok |-> r.ok]

Sharded_SetIfAbsent(s, key, value) ==
    LET r == MapCache_SetIfAbsent(s.shards[Sharded_shard(s, key)], key, value)
    IN  [s |-> [s EXCEPT !.shards[Sharded_shard(s, key)] = r.data], old |-> r.old, ok |-> r.ok]

\* Get that asks the first shard whatever the key.
Sharded_Get_first(s, key) == MapCache_Get(s.shards[1], key)

\* Get: <<value, err>>
Sharded_Get(s, key) == MapCache_Get(s.shards[Sharded_shard(s, key)], key)

Sharded_Del(s, key) ==
    [s EXCEPT !.shards[Sharded_shard(s, key)] = MapCache_Del(@, key)]

\* MapCache.Snapshot and MapCache.Len
MapCache_Snapshot(data) == data
MapCache_Len(data) == Cardinality(DOMAIN data)

\* snapshot[k] = v for every k, v of m.
MapMerge(snapshot, m) ==
    [k \in (DOMAIN snapshot) \cup (DOMAIN m) |-> IF k \in DOMAIN m THEN m[k] ELSE snapshot[k]]

\* Snapshot: the loop over the shards, snap[i] being the map after i shards.
Sharded_Snapshot(s) ==
    LET snap[i \in 0..Len(s.shards)] ==
            IF i = 0 THEN EmptyMap
            ELSE MapMerge(snap[i - 1], MapCache_Snapshot(s.shards[i]))
    IN  snap[Len(s.shards)]

\* Len: the loop over the shards, l[i] being the sum after i shards.
Sharded_Len(s) ==
    LET l[i \in 0..Len(s.shards)] ==
            IF i = 0 THEN 0 ELSE l[i - 1] + MapCache_Len(s.shards[i])
    IN  l[Len(s.shards)]

\* What a call returned from Sharded (got) and from the one MapCache (want).
ShardResult(op, got, want) == [op |-> op, got |-> got, want |-> want]
NoShardRet == ShardResult("none", Nil, Nil)

ShardedSet(key, value) ==
    /\ ShardOnly
    /\ shardRet = NoShardRet
    /\ sharded' = Sharded_Set(sharded, key, value)
    /\ shardRef' = MapCache_Set(shardRef, key, value)
    /\ shardRet' = ShardResult("Set", Nil, Nil)

ShardedSetIfPresent(key, value) ==
    /\ ShardOnly
    /\ shardRet = NoShardRet
    /\ LET r == Sharded_SetIfPresent(sharded, key, value)
           w == MapCache_SetIfPresent(shardRef, key, value)
       IN  /\ sharded' = r.s
           /\ shardRef' = w.data
           /\ shardRet' = ShardResult("SetIfPresent", <<r.old, r.ok>>, <<w.old, w.ok>>)

ShardedSetIfAbsent(key, value) ==
    /\ ShardOnly
    /\ shardRet = NoShardRet
    /\ LET r == Sharded_SetIfAbsent(sharded, key, value)
           w == MapCache_SetIfAbsent(shardRef, key, value)
       IN  /\ sharded' = r.s
           /\ shardRef' = w.data
           /\ shardRet' = ShardResult("SetIfAbsent", <<r.old, r.ok>>, <<w.old, w.ok>>)

ShardedGet(key) ==
    /\ ShardOnly
    /\ shardRet = NoShardRet
    /\ shardRet' = ShardResult("Get", Sharded_Get(sharded, key), MapCache_Get(shardRef, key))
    /\ UNCHANGED <<sharded, shardRef>>

ShardedDel(key) ==
    /\ ShardOnly
    /\ shardRet = NoShardRet
    /\ sharded' = Sharded_Del(sharded, key)
    /\ shardRef' = MapCache_Del(shardRef, key)
    /\ shardRet' = ShardResult("Del", Nil, Nil)

ShardedLen ==
    /\ ShardOnly
    /\ shardRet = NoShardRet
    /\ shardRet' = ShardResult("Len", Sharded_Len(sharded), MapCache_Len(shardRef))
    /\ UNCHANGED <<sharded, shardRef>>

ShardedSnapshot ==
    /\ ShardOnly
    /\ shardRet = NoShardRet
    /\ shardRet' = ShardResult("Snapshot", Sharded_Snapshot(sharded), MapCache_Snapshot(shardRef))
    /\ UNCHANGED <<sharded, shardRef>>

ShardedReturn ==
    /\ ShardOnly
    /\ shardRet # NoShardRet
    /\ shardRet' = NoShardRet
    /\ UNCHANGED <<sharded, shardRef>>

ShardInit(ns) ==
    /\ \E n \in ns, cpus \in 1..MaxCPU :
           /\ n <= 0 \/ cpus = 1
           /\ sharded = NewSharded(n, cpus)
    /\ shardRef = NewMapCache
    /\ shardRet = NoShardRet

ShardNext ==
    \/ \E k \in ShardKeys, v \in Vals : ShardedSet(k, v)
    \/ \E k \in ShardKeys, v \in Vals : ShardedSetIfPresent(k, v)
    \/ \E k \in ShardKeys, v \in Vals : ShardedSetIfAbsent(k, v)
    \/ \E k \in ShardKeys : ShardedGet(k)
    \/ \E k \in ShardKeys : ShardedDel(k)
    \/ ShardedLen
    \/ ShardedSnapshot
    \/ ShardedReturn

(***************************************************************************)
(* Claims about Sharded                                                    *)
(***************************************************************************)
\* C31: Sharded over N MapCache shards with a deterministic mapper: every key is
\* stored only in shard Map(k, N), so through the wrapper Set, SetIfPresent,
\* SetIfAbsent, Get and Del behave exactly as on one single map cache, Len()
\* equals the number of distinct keys present (the sum of the shard lengths), and
\* Snapshot() is the union of the shard snapshots.
C31_ShardedIsOneMapCache ==
    /\ \A i \in 1..sharded.N :
           \A k \in DOMAIN sharded.shards[i] : NumberMapper_Map(k, sharded.N) = i - 1
    /\ shardRet.got = shardRet.want
    /\ \A k \in ShardKeys : Sharded_Get(sharded, k) = MapCache_Get(shardRef, k)
    /\ Sharded_Len(sharded) = Cardinality(DOMAIN shardRef)
    /\ Sharded_Len(sharded) = Cardinality(UNION {DOMAIN sharded.shards[i] : i \in 1..sharded.N})
    /\ Sharded_Snapshot(sharded) = shardRef
    /\ DOMAIN Sharded_Snapshot(sharded) = UNION {DOMAIN sharded.shards[i] : i \in 1..sharded.N}
    /\ \A i \in 1..sharded.N :
           \A k \in DOMAIN sharded.shards[i] : Sharded_Snapshot(sharded)[k] = sharded.shards[i][k]

\* C31's case: Snapshot has just returned the map of four keys, the negative key
\* among them, which lie in three different shards.
C31_Witness ==
    /\ shardRet.op = "Snapshot"
    /\ DOMAIN shardRet.got = ShardKeys
    /\ sharded.N = MaxShards
    /\ \A i \in 1..sharded.N : sharded.shards[i] # EmptyMap

(***************************************************************************)
(* Specifications: one per component, over the shared variables.           *)
(***************************************************************************)
\* Each specification draws the parameters of its own component; the other
\* components stay as they are made with the smallest parameters.
MoreInit == StxInit /\ SnapInit /\ ShardInit({1})

Init == TTLInit /\ UpdInit({1}) /\ RingInit({1}) /\ KVInit /\ KVWInit /\ LockInit /\ MoreInit

SpecTTL == Init /\ [][TTLNext]_vars

SpecTTLEvict == Init /\ [][TTLEvictNext]_vars

SpecTTLZero == Init /\ [][TTLZeroNext]_vars

InitUpdater == TTLInit /\ UpdInit(1..MaxPoolSize) /\ RingInit({1}) /\ KVInit /\ KVWInit /\ LockInit /\ MoreInit

SpecUpdater == InitUpdater /\ [][UpdNext]_vars

SpecUpdaterFair == InitUpdater /\ [][UpdFairNext]_vars /\ UpdFairness

InitRing == TTLInit /\ UpdInit({1}) /\ RingInit(1..MaxRingSize) /\ KVInit /\ KVWInit /\ LockInit /\ MoreInit

SpecRing == InitRing /\ [][RingNext]_vars

SpecKV == Init /\ [][KVNext]_vars

SpecKVSnapshot == Init /\ [][SnapNext]_vars

SpecKVW == Init /\ [][KVWNext]_vars

SpecLocker == Init /\ [][LockNext]_vars

SpecLockerShared == Init /\ [][StxNext]_vars

InitBasic == TTLInit /\ UpdInit({1}) /\ RingInit({MaxBasicWrites + 1}) /\ KVInit /\ KVWInit /\ LockInit /\ MoreInit

SpecBasic == InitBasic /\ [][BasicNext]_vars

SpecTrie == Init /\ [][TrieNext]_vars

InitMock == TTLInit /\ UpdInit({1}) /\ RingInit({1}) /\ KVInit /\ KVWInitMock /\ LockInit /\ MoreInit

SpecKVWMock == InitMock /\ [][KVWNext]_vars

SpecKVWConc == Init /\ [][KVWConcNext]_vars

InitKVWRing == TTLInit /\ UpdInit({1}) /\ RingInit({1}) /\ KVInit /\ KVWInitRing /\ LockInit /\ MoreInit

SpecKVWRing == InitKVWRing /\ [][KVWRingNext]_vars

InitSharded ==
    /\ TTLInit /\ UpdInit({1}) /\ RingInit({1}) /\ KVInit /\ KVWInit /\ LockInit
    /\ StxInit /\ SnapInit /\ ShardInit(0..MaxShards)

SpecSharded == InitSharded /\ [][ShardNext]_vars
====
